---- MODULE Spec2Model ----
(***************************************************************************)
(* vibe-track: the activity log, the session reconstructor of             *)
(* database.js (calculateWorkTimeForDate), the text-log reconstructor of  *)
(* workTracker.js (analyzeWorkTimeFromTextLog) and analyzeWorkTime.       *)
(*                                                                         *)
(* Time is counted in ticks.  A timestamp is a tick number, the calendar  *)
(* date of a timestamp is its day number, and a duration in seconds is a  *)
(* difference of ticks times TickSeconds.  Strings are sequences of       *)
(* tokens, so that String.includes is a contiguous-subsequence test.      *)
(***************************************************************************)
EXTENDS Integers, Sequences, FiniteSets, TLC

\* ---------------------------------------------------------------- bounds

\* The clock runs from StartTime to MaxTime.
StartTime == 0
MaxTime == 6
\* Ticks per calendar day.
DayLen == 6
\* Rows the activity log may hold.
MaxEvents == 2
\* Seconds per tick (the scenarios of the tests are spaced 30 minutes apart).
TickSeconds == 1800
\* logActivity() calls that may be suspended at an await at one time.
MaxInFlight == 2
\* Projects the keyword map may hold.
MaxProjects == 2
\* Clock value up to which a run of the sampler is followed.
SamplerHorizon == 2
\* Half-percent steps of the default goal a work total may count.
MaxWorkUnits == 250

VARIABLES
  sqlite,        \* database.js:6-12   Database !== null
  initialized,   \* database.js:19     WorkTrackerDB.initialized
  activity_log,  \* database.js:57-67  rows of table activity_log, in rowid order
  daily_summary, \* database.js:70-80  rows of table daily_summary, one per date
  log_file,      \* part_000:12,24     lines of activity_log.txt, in file order
  entries,       \* part_005:138-146  lines of a test's log not yet written
  now,           \* the wall clock, new Date()
  result,        \* what the last call returned to its caller
  isAFK,             \* activityTracker.js:10  let isAFK
  trackingInterval,  \* activityTracker.js:11  the timer is set
  inflight,          \* logActivity() calls suspended at an await
  projectKeywords,   \* part_001:54     config.projectKeywords, in insertion order
  defaultKeywords,   \* part_001:54     DEFAULT_CONFIG.projectKeywords
  keywordsShared,    \* part_001:96,207 config.projectKeywords is that very object
  cachedKeywords,    \* projects.js:7   ProjectManager.cachedKeywords
  lastKeywordsLoad,  \* projects.js:8   ProjectManager.lastKeywordsLoad
  migration_status,  \* database.js:99  the row id = 1 of table migration_status
  log_exists         \* database.js:344 fs.existsSync(logFilePath)

trackerVars == <<isAFK, trackingInterval, inflight>>

configVars == <<projectKeywords, defaultKeywords, keywordsShared>>

cacheVars == <<cachedKeywords, lastKeywordsLoad>>

migrationVars == <<migration_status, log_exists>>

vars == <<sqlite, initialized, activity_log, daily_summary, log_file, entries,
          now, result, trackerVars, configVars, cacheVars, migrationVars>>

\* ---------------------------------------------------------------- strings

\* haystack.includes(needle) on token sequences.
Includes(haystack, needle) ==
  \E i \in 0..(Len(haystack) - Len(needle)) :
     SubSeq(haystack, i + 1, i + Len(needle)) = needle

\* array.some(pred) for an array given as a sequence.
Range(s) == { s[i] : i \in 1..Len(s) }

\* null for a Date-valued local (sessionStart, lastTimestamp).
NullDate == -1

\* null for a string-valued column or argument.
NullStr == <<>>

\* ---------------------------------------------------------------- config

\* The allow-lists the tests configure.
productiveApps == << <<"VSCode">>, <<"Terminal">>, <<"Sublime Text">> >>

productiveWebsites == << <<"github.com">>, <<"stackoverflow.com">>, <<"claude.ai">> >>

\* ---------------------------------------------------------------- dates

\* SQLite date(timestamp) and toISOString().split('T')[0]: the UTC day.
DateOf(timestamp) == timestamp \div DayLen

\* new Date().toISOString().split('T')[0] evaluated at clock value t.
TodayStr(t) == DateOf(t)

Dates == 0..DateOf(MaxTime)

\* ---------------------------------------------------------------- rows

\* A row of activity_log: an Activity sample or an AFK marker.
ActivityRow(timestamp, appName, windowTitle, isAfk, afkType, project) ==
  [ timestamp    |-> timestamp,
    app_name     |-> appName,
    window_title |-> windowTitle,
    is_afk       |-> isAfk,
    afk_type     |-> afkType,
    project      |-> project ]

\* Mutant of InsertByTimestamp: r is put before the rows of its own
\* timestamp.
RECURSIVE InsertByTimestamp_BeforeTies(_, _)
InsertByTimestamp_BeforeTies(s, r) ==
  IF s = <<>> THEN <<r>>
  ELSE IF s[Len(s)].timestamp < r.timestamp THEN Append(s, r)
  ELSE Append(InsertByTimestamp_BeforeTies(SubSeq(s, 1, Len(s) - 1), r),
              s[Len(s)])

\* s with row r put after every row whose timestamp is not greater: the
\* place ORDER BY timestamp ASC gives a row among those inserted before it.
RECURSIVE InsertByTimestamp(_, _)
InsertByTimestamp(s, r) ==
  IF s = <<>> THEN <<r>>
  ELSE IF s[Len(s)].timestamp <= r.timestamp THEN Append(s, r)
  ELSE Append(InsertByTimestamp(SubSeq(s, 1, Len(s) - 1), r), s[Len(s)])

RECURSIVE OrderByTimestamp(_)
OrderByTimestamp(rows) ==
  IF rows = <<>> THEN <<>>
  ELSE InsertByTimestamp(OrderByTimestamp(SubSeq(rows, 1, Len(rows) - 1)),
                         rows[Len(rows)])

\* SELECT * FROM activity_log WHERE date(timestamp) = ? ORDER BY timestamp ASC
getActivityForDate(log, date) ==
  OrderByTimestamp(SelectSeq(log, LAMBDA r : DateOf(r.timestamp) = date))

\* ---------------------------------------------------------------- classifier

Browsers ==
  << <<"Safari">>, <<"Google ", "Chrome">>, <<"Firefox">>, <<"Chrome">>,
     <<"Edge">>, <<"Brave">> >>

\* Mutant of isProductiveActivity: a browser counts as productive whatever
\* its window title is.
isProductiveActivity_AnyBrowserTitle(appName, windowTitle, apps, websites) ==
  IF appName = NullStr THEN FALSE
  ELSE \/ \E app \in Range(apps) : Includes(appName, app)
       \/ \E browser \in Range(Browsers) : Includes(appName, browser)

\* db.isProductiveActivity(appName, windowTitle, productiveApps,
\* productiveWebsites)
isProductiveActivity(appName, windowTitle, apps, websites) ==
  IF appName = NullStr THEN FALSE
  ELSE IF \E app \in Range(apps) : Includes(appName, app) THEN TRUE
  ELSE IF /\ \E browser \in Range(Browsers) : Includes(appName, browser)
          /\ windowTitle # NullStr
       THEN \E site \in Range(websites) : Includes(windowTitle, site)
  ELSE FALSE

\* ---------------------------------------------------------------- reconstructor

\* The locals of calculateWorkTimeForDate before its loop.
PassInit ==
  [ totalWorkSeconds  |-> 0,
    isAfk             |-> FALSE,
    lastTimestamp     |-> NullDate,
    lastWasProductive |-> FALSE,
    sessionStart      |-> NullDate,
    sessions          |-> <<>> ]

\* (end - sessionStart) / 1000
Duration(start, end) == (end - start) * TickSeconds

\* Mutant of RecordSession: the duration > 0 test is missing.
RecordSession_NoGuard(st, end) ==
  LET duration == Duration(st.sessionStart, end) IN
  [ st EXCEPT
      !.sessions = Append(@, [ start    |-> st.sessionStart,
                               end      |-> end,
                               duration |-> duration ]),
      !.totalWorkSeconds = @ + duration ]

\* const duration = ...; if (duration > 0) { sessions.push(...); total += duration }
RecordSession(st, end) ==
  LET duration == Duration(st.sessionStart, end) IN
  IF duration > 0
  THEN [ st EXCEPT
           !.sessions = Append(@, [ start    |-> st.sessionStart,
                                    end      |-> end,
                                    duration |-> duration ]),
           !.totalWorkSeconds = @ + duration ]
  ELSE st

\* Mutant of AfkStep: an AFK start marker records the open session and leaves
\* it open.
AfkStep_KeepsSessionOpen(st, activity) ==
  LET timestamp == activity.timestamp
      st1 == IF activity.afk_type = "start"
             THEN LET ended == IF st.sessionStart # NullDate /\ ~st.isAfk
                               THEN RecordSession(st, timestamp)
                               ELSE st
                  IN [ ended EXCEPT !.isAfk = TRUE ]
             ELSE IF activity.afk_type = "end"
             THEN [ st EXCEPT !.isAfk = FALSE ]
             ELSE st
  IN [ st1 EXCEPT !.lastTimestamp = timestamp ]

\* Mutant of AfkStep: an AFK end marker opens a session at its timestamp.
AfkStep_EndOpensSession(st, activity) ==
  LET timestamp == activity.timestamp
      st1 == IF activity.afk_type = "start"
             THEN LET ended == IF st.sessionStart # NullDate /\ ~st.isAfk
                               THEN [ RecordSession(st, timestamp)
                                        EXCEPT !.sessionStart = NullDate ]
                               ELSE st
                  IN [ ended EXCEPT !.isAfk = TRUE ]
             ELSE IF activity.afk_type = "end"
             THEN [ st EXCEPT !.isAfk = FALSE, !.sessionStart = timestamp ]
             ELSE st
  IN [ st1 EXCEPT !.lastTimestamp = timestamp ]

\* The branch for a row with is_afk set.
AfkStep(st, activity) ==
  LET timestamp == activity.timestamp
      st1 == IF activity.afk_type = "start"
             THEN LET ended == IF st.sessionStart # NullDate /\ ~st.isAfk
                               THEN [ RecordSession(st, timestamp)
                                        EXCEPT !.sessionStart = NullDate ]
                               ELSE st
                  IN [ ended EXCEPT !.isAfk = TRUE ]
             ELSE IF activity.afk_type = "end"
             THEN [ st EXCEPT !.isAfk = FALSE ]
             ELSE st
  IN [ st1 EXCEPT !.lastTimestamp = timestamp ]

\* Mutant of ActivityStep: a productive sample restarts the session that is
\* open.
ActivityStep_RestartOnProductive(st, activity, apps, websites) ==
  LET timestamp == activity.timestamp
      isProductive == isProductiveActivity(activity.app_name,
                                           activity.window_title, apps, websites)
      st1 == IF isProductive
             THEN [ st EXCEPT !.sessionStart = timestamp ]
             ELSE IF st.sessionStart # NullDate
             THEN [ RecordSession(st, timestamp) EXCEPT !.sessionStart = NullDate ]
             ELSE st
  IN [ st1 EXCEPT !.lastTimestamp = timestamp,
                  !.lastWasProductive = isProductive ]

\* Mutant of ActivityStep: a non-productive sample leaves the session open.
ActivityStep_IgnoreNonProductive(st, activity, apps, websites) ==
  LET timestamp == activity.timestamp
      isProductive == isProductiveActivity(activity.app_name,
                                           activity.window_title, apps, websites)
      st1 == IF isProductive /\ st.sessionStart = NullDate
             THEN [ st EXCEPT !.sessionStart = timestamp ]
             ELSE st
  IN [ st1 EXCEPT !.lastTimestamp = timestamp,
                  !.lastWasProductive = isProductive ]

\* The branch for an Activity row read while not AFK.
ActivityStep(st, activity, apps, websites) ==
  LET timestamp == activity.timestamp
      isProductive == isProductiveActivity(activity.app_name,
                                           activity.window_title, apps, websites)
      st1 == IF isProductive
             THEN IF st.sessionStart = NullDate
                  THEN [ st EXCEPT !.sessionStart = timestamp ]
                  ELSE st
             ELSE IF st.sessionStart # NullDate
             THEN [ RecordSession(st, timestamp) EXCEPT !.sessionStart = NullDate ]
             ELSE st
  IN [ st1 EXCEPT !.lastTimestamp = timestamp,
                  !.lastWasProductive = isProductive ]

\* Mutant of PassStep: an activity row skipped while afk advances
\* lastTimestamp.
PassStep_SkipAdvances(st, activity, apps, websites) ==
  IF activity.is_afk THEN AfkStep(st, activity)
  ELSE IF st.isAfk THEN [ st EXCEPT !.lastTimestamp = activity.timestamp ]
  ELSE ActivityStep(st, activity, apps, websites)

\* One iteration of the loop over the date's rows.
PassStep(st, activity, apps, websites) ==
  IF activity.is_afk THEN AfkStep(st, activity)
  ELSE IF st.isAfk THEN st
  ELSE ActivityStep(st, activity, apps, websites)

\* The locals after the first k rows.
RECURSIVE Pass(_, _, _, _)
Pass(activities, k, apps, websites) ==
  IF k = 0 THEN PassInit
  ELSE PassStep(Pass(activities, k - 1, apps, websites), activities[k],
                apps, websites)

\* Mutant of CloseOngoing: the ongoing session is closed at the clock for
\* every date.
CloseOngoing_AlwaysNow(st, date, t) ==
  IF st.sessionStart # NullDate /\ ~st.isAfk
  THEN RecordSession(st, t)
  ELSE st

\* Mutant of CloseOngoing: the ongoing session is closed at lastTimestamp for
\* every date.
CloseOngoing_LastTimestamp(st, date, t) ==
  IF st.sessionStart # NullDate /\ ~st.isAfk /\ st.lastTimestamp # NullDate
  THEN RecordSession(st, st.lastTimestamp)
  ELSE st

\* "Handle ongoing session": the block after the loop, evaluated at clock t.
CloseOngoing(st, date, t) ==
  IF st.sessionStart # NullDate /\ ~st.isAfk
  THEN IF date = TodayStr(t) THEN RecordSession(st, t)
       ELSE IF st.lastTimestamp # NullDate
       THEN RecordSession(st, st.lastTimestamp)
       ELSE st
  ELSE st

\* What a function returns for "no data".
Null == [ null |-> TRUE ]

\* calculateWorkTimeForDate on an initialised database holding log, at clock t.
calculateWorkTimeForDate(log, date, apps, websites, t) ==
  LET activities == getActivityForDate(log, date) IN
  IF Len(activities) = 0 THEN Null
  ELSE LET st == CloseOngoing(Pass(activities, Len(activities), apps, websites),
                              date, t)
       IN [ totalWorkSeconds |-> st.totalWorkSeconds,
            sessions         |-> st.sessions,
            sessionsCount    |-> Len(st.sessions) ]

\* ---------------------------------------------------------------- text log

\* The line the sampler appends to activity_log.txt for a sample or marker.
LogLine(timestamp, e) ==
  [ timestamp |-> timestamp,
    text      |-> IF e.is_afk
                  THEN IF e.afk_type = "start"
                       THEN <<"--- ", "AFK START", " ---">>
                       ELSE <<"--- ", "AFK END", " ---">>
                  ELSE <<"App: ">> \o e.app_name \o <<", Window: ">>
                         \o e.window_title ]

\* isProductiveWork(entry)
isProductiveWork(entry) ==
  IF \E app \in Range(productiveApps) : Includes(entry, <<"App: ">> \o app)
  THEN TRUE
  ELSE IF \/ Includes(entry, <<"App: ", "Safari">>)
          \/ Includes(entry, <<"App: ", "Google ", "Chrome">>)
          \/ Includes(entry, <<"App: ", "Firefox">>)
          \/ Includes(entry, <<"App: ", "Chrome">>)
          \/ Includes(entry, <<"App: ", "Edge">>)
          \/ Includes(entry, <<"App: ", "Brave">>)
  THEN \E site \in Range(productiveWebsites) : Includes(entry, site)
  ELSE FALSE

\* The locals of analyzeWorkTimeFromTextLog before the first line.
TextInit ==
  [ workSessions     |-> <<>>,
    isAFK            |-> FALSE,
    currentSession   |-> NullDate,
    totalWorkSeconds |-> 0,
    lastTimestamp    |-> NullDate,
    lastEntry        |-> [ set |-> FALSE, isProductive |-> FALSE ] ]

\* sessionDuration > 0 ? push and add : nothing
TextRecord(st, end) ==
  LET sessionDuration == Duration(st.currentSession, end) IN
  IF sessionDuration > 0
  THEN [ st EXCEPT
           !.workSessions = Append(@, [ start    |-> st.currentSession,
                                        end      |-> end,
                                        duration |-> sessionDuration ]),
           !.totalWorkSeconds = @ + sessionDuration ]
  ELSE st

\* The part of the 'line' handler that follows the AFK checks.
TextEntryStep(st, line) ==
  LET timestamp == line.timestamp
      isProductiveEntry == isProductiveWork(line.text)
      st1 ==
        IF st.lastTimestamp # NullDate
        THEN IF isProductiveEntry /\ st.lastEntry.set /\ st.lastEntry.isProductive
             THEN IF st.currentSession = NullDate
                  THEN [ st EXCEPT !.currentSession = st.lastTimestamp ]
                  ELSE st
             ELSE IF isProductiveEntry /\ st.lastEntry.set
                     /\ ~st.lastEntry.isProductive
             THEN [ st EXCEPT !.currentSession = timestamp ]
             ELSE IF /\ ~isProductiveEntry /\ st.lastEntry.set
                     /\ st.lastEntry.isProductive
                     /\ st.currentSession # NullDate
             THEN [ TextRecord(st, timestamp) EXCEPT !.currentSession = NullDate ]
             ELSE st
        ELSE IF isProductiveEntry
        THEN [ st EXCEPT !.currentSession = timestamp ]
        ELSE st
  IN [ st1 EXCEPT !.lastTimestamp = timestamp,
                  !.lastEntry = [ set |-> TRUE,
                                  isProductive |-> isProductiveEntry ] ]

\* rl.on('line', ...) for one line, today being the target date.
TextLineStep(st, line, today) ==
  IF DateOf(line.timestamp) # today THEN st
  ELSE IF Includes(line.text, <<"AFK START">>)
  THEN [ (IF st.currentSession # NullDate /\ ~st.isAFK
          THEN [ TextRecord(st, line.timestamp) EXCEPT !.currentSession = NullDate ]
          ELSE st)
         EXCEPT !.isAFK = TRUE ]
  ELSE IF Includes(line.text, <<"AFK END">>)
  THEN [ st EXCEPT !.isAFK = FALSE, !.lastTimestamp = line.timestamp ]
  ELSE IF st.isAFK THEN st
  ELSE TextEntryStep(st, line)

\* The locals after the first k lines of the file.
RECURSIVE TextPass(_, _, _)
TextPass(lines, k, today) ==
  IF k = 0 THEN TextInit
  ELSE TextLineStep(TextPass(lines, k - 1, today), lines[k], today)

\* rl.on('close', ...): the ongoing session is closed, evaluated at clock t.
TextClose(st, t) ==
  IF st.currentSession # NullDate /\ st.lastTimestamp # NullDate /\ ~st.isAFK
  THEN TextRecord(st, t)
  ELSE st

\* Math.round(duration / 60) for a duration that is not negative.
RoundMinutes(duration) == (2 * duration + 60) \div 120

\* sessions.map(session => ({start, end, durationMinutes}))
RECURSIVE MapSessions(_)
MapSessions(sessions) ==
  IF sessions = <<>> THEN <<>>
  ELSE <<[ start           |-> sessions[1].start,
           end             |-> sessions[1].end,
           durationMinutes |-> RoundMinutes(sessions[1].duration) ]>>
       \o MapSessions(Tail(sessions))

\* analyzeWorkTimeFromTextLog(logFilePath, targetDate) on the file's lines.
analyzeWorkTimeFromTextLog(lines, targetDate, t) ==
  LET st == TextClose(TextPass(lines, Len(lines), targetDate), t) IN
  [ date          |-> targetDate,
    totalWorkTime |-> [ hours   |-> st.totalWorkSeconds \div 3600,
                        minutes |-> (st.totalWorkSeconds % 3600) \div 60,
                        seconds |-> st.totalWorkSeconds % 60,
                        totalSeconds |-> st.totalWorkSeconds ],
    sessionsCount |-> Len(st.workSessions),
    sessions      |-> MapSessions(st.workSessions) ]

\* ---------------------------------------------------------------- results

\* createEmptyResult(date)
createEmptyResult(date) ==
  [ date          |-> date,
    totalWorkTime |-> [ hours |-> 0, minutes |-> 0, seconds |-> 0,
                        totalSeconds |-> 0 ],
    sessionsCount |-> 0,
    sessions      |-> <<>> ]

\* The object analyzeWorkTime builds from a non-null dbResult.
WorkTimeResult(date, dbResult) ==
  [ date          |-> date,
    totalWorkTime |-> [ hours   |-> dbResult.totalWorkSeconds \div 3600,
                        minutes |-> (dbResult.totalWorkSeconds % 3600) \div 60,
                        seconds |-> dbResult.totalWorkSeconds % 60,
                        totalSeconds |-> dbResult.totalWorkSeconds ],
    sessionsCount |-> dbResult.sessionsCount,
    sessions      |-> dbResult.sessions ]

\* ---------------------------------------------------------------- projects

\* String.prototype.toLowerCase() on one token.
LowerOf(token) ==
  CASE token = "VSCode" -> "vscode"
    [] token = "Slack" -> "slack"
    [] token = "Finder" -> "finder"
    [] token = "Unknown Window" -> "unknown window"
    [] token = "Visual Studio Code" -> "visual studio code"
    [] token = "GitHub" -> "github"
    [] token = "Google " -> "google "
    [] token = "Chrome" -> "chrome"
    [] token = "Chat" -> "chat"
    [] token = "PROJ-123" -> "proj-123"
    [] OTHER -> token

\* String.prototype.toLowerCase() on a token sequence.
toLowerCase(str) == [ i \in 1..Len(str) |-> LowerOf(str[i]) ]

\* A project keyword map: its entries in insertion order, names distinct.
\* name is a string; isArray tells whether the value is an array of keywords.
KeywordEntry(name, isArray, keywords) ==
  [ name |-> name, isArray |-> isArray, keywords |-> keywords ]

\* The property names that are array indices, with their numeric values.
ArrayIndexNames == {"7", "12"}

ArrayIndexValue(name) == IF name = "7" THEN 7 ELSE 12

\* The entries of map whose names are array indices, in ascending order.
RECURSIVE IndexEntries(_, _)
IndexEntries(map, done) ==
  LET rest == { i \in 1..Len(map) :
                  map[i].name \in ArrayIndexNames /\ i \notin done }
  IN IF rest = {} THEN <<>>
     ELSE LET i == CHOOSE i \in rest :
                     \A j \in rest : ArrayIndexValue(map[i].name)
                                       <= ArrayIndexValue(map[j].name)
          IN <<map[i]>> \o IndexEntries(map, done \cup {i})

\* The entries of map whose names are not array indices, in insertion order.
RECURSIVE StringEntries(_)
StringEntries(map) ==
  IF map = <<>> THEN <<>>
  ELSE (IF map[1].name \in ArrayIndexNames THEN <<>> ELSE <<map[1]>>)
         \o StringEntries(Tail(map))

\* Object.entries(keywords): array-index names first, in ascending numeric
\* order, then the other names in insertion order.
ObjectEntries(map) == IndexEntries(map, {}) \o StringEntries(map)

\* The tokens that contain a '.' (folderName.includes('.')).
DottedTokens == {"test.js", "github.com"}

\* /^([^-]+)\s*[-—]\s*Visual Studio Code/i on a title whose first token is
\* the folder: the folder name, or NullStr when there is no match.
vsCodeMatch(windowTitle) ==
  IF /\ Len(windowTitle) >= 3
     /\ windowTitle[2] = " - "
     /\ LowerOf(windowTitle[3]) = "visual studio code"
  THEN <<windowTitle[1]>>
  ELSE NullStr

\* /(?:~|\/\w+)(?:\/[\w.-]+)*\/([^/\s]+)/ : the last component of the first
\* path token of the title.
PathLeaf(token) ==
  CASE token = "~/projects/gamma" -> <<"gamma">>
    [] OTHER -> NullStr

RECURSIVE pathMatch(_)
pathMatch(windowTitle) ==
  IF windowTitle = <<>> THEN NullStr
  ELSE IF PathLeaf(windowTitle[1]) # NullStr THEN PathLeaf(windowTitle[1])
  ELSE pathMatch(Tail(windowTitle))

\* /(?:GitHub|GitLab|Bitbucket)\s*[-:]\s*[\w-]+\/([^/\s-]+)/i : the repository
\* of an owner/repo token that follows the host and a dash.
RepoOf(token) ==
  CASE token = "owner/delta" -> <<"delta">>
    [] OTHER -> NullStr

githubMatch(windowTitle) ==
  IF \E i \in 1..(Len(windowTitle) - 2) :
       /\ LowerOf(windowTitle[i]) = "github"
       /\ windowTitle[i + 1] = " - "
       /\ RepoOf(windowTitle[i + 2]) # NullStr
  THEN LET i == CHOOSE i \in 1..(Len(windowTitle) - 2) :
                  /\ LowerOf(windowTitle[i]) = "github"
                  /\ windowTitle[i + 1] = " - "
                  /\ RepoOf(windowTitle[i + 2]) # NullStr
                  /\ \A j \in 1..(i - 1) :
                       ~(/\ LowerOf(windowTitle[j]) = "github"
                         /\ windowTitle[j + 1] = " - "
                         /\ RepoOf(windowTitle[j + 2]) # NullStr)
       IN RepoOf(windowTitle[i + 2])
  ELSE NullStr

\* /\[?([A-Z]+-\d+)\]?/ and split('-')[0]: the prefix of the first ticket
\* token of the title.
TicketPrefix(token) ==
  CASE token = "PROJ-123" -> <<"PROJ">>
    [] OTHER -> NullStr

RECURSIVE ticketMatch(_)
ticketMatch(windowTitle) ==
  IF windowTitle = <<>> THEN NullStr
  ELSE IF TicketPrefix(windowTitle[1]) # NullStr
  THEN TicketPrefix(windowTitle[1])
  ELSE ticketMatch(Tail(windowTitle))

\* detectFromPatterns(windowTitle, appName)
detectFromPatterns(windowTitle, appName) ==
  IF windowTitle = NullStr THEN "Uncategorized"
  ELSE IF /\ vsCodeMatch(windowTitle) # NullStr
          /\ vsCodeMatch(windowTitle)[1] \notin DottedTokens
  THEN vsCodeMatch(windowTitle)[1]
  ELSE IF pathMatch(windowTitle) # NullStr THEN pathMatch(windowTitle)[1]
  ELSE IF githubMatch(windowTitle) # NullStr THEN githubMatch(windowTitle)[1]
  ELSE IF ticketMatch(windowTitle) # NullStr THEN ticketMatch(windowTitle)[1]
  ELSE "Uncategorized"

\* The entries of Object.entries(keywords) that have a keyword contained in
\* searchText.
KeywordHits(pairs, searchText) ==
  { i \in 1..Len(pairs) :
      /\ pairs[i].isArray
      /\ \E k \in 1..Len(pairs[i].keywords) :
           Includes(searchText, toLowerCase(pairs[i].keywords[k])) }

\* detectProject(windowTitle, appName) with keywords = this.getKeywords()
detectProject(windowTitle, appName, keywords) ==
  IF windowTitle = NullStr /\ appName = NullStr THEN "Uncategorized"
  ELSE LET searchText == toLowerCase(windowTitle \o <<" ">> \o appName)
           pairs      == ObjectEntries(keywords)
           hits       == KeywordHits(pairs, searchText)
       IN IF hits # {}
          THEN pairs[CHOOSE i \in hits : \A j \in hits : i <= j].name
          ELSE detectFromPatterns(windowTitle, appName)

\* { ...object }: a fresh object with the own properties of object, copied
\* in the order Object.entries lists them.
Spread(object) == ObjectEntries(object)

\* config.getProjectKeywords(): a copy of this.config.projectKeywords.
getProjectKeywords == Spread(projectKeywords)

\* (now - this.lastKeywordsLoad) > 30000, in milliseconds
CacheTtlMs == 30000

\* The cache of the ProjectManager: null, or the map loaded last.
NoKeywords == [ set |-> FALSE, map |-> <<>> ]

\* The test of getKeywords() that the cache is to be loaded, at clock t.
CacheStale(t) ==
  \/ ~cachedKeywords.set
  \/ lastKeywordsLoad = NullDate
  \/ Duration(lastKeywordsLoad, t) * 1000 > CacheTtlMs

\* getKeywords(): the map it returns.
getKeywords ==
  IF CacheStale(now) THEN getProjectKeywords ELSE cachedKeywords.map

\* getKeywords(): what it leaves in the cache.
GetKeywords ==
  /\ cachedKeywords' = IF CacheStale(now)
                       THEN [ set |-> TRUE, map |-> getProjectKeywords ]
                       ELSE cachedKeywords
  /\ lastKeywordsLoad' = IF CacheStale(now) THEN now ELSE lastKeywordsLoad

\* ---------------------------------------------------------------- database

\* WorkTrackerDB.init(): its return value; the caller stores it in initialized.
init == initialized \/ sqlite

\* What a call returned to its caller.
Returned(op, date, value) ==
  [ op |-> op, date |-> date, at |-> now, value |-> value ]

NoResult == [ op |-> "none" ]

\* The samples and markers the sampler writes.
UnknownWindow == <<"Unknown Window">>

SampleInputs ==
  { ActivityRow(0, <<"VSCode">>, UnknownWindow, FALSE, "null", "alpha"),
    ActivityRow(0, <<"VSCode">>, UnknownWindow, FALSE, "null", "beta"),
    ActivityRow(0, <<"Slack">>, UnknownWindow, FALSE, "null", "Uncategorized"),
    ActivityRow(0, NullStr, NullStr, TRUE, "start", "null"),
    ActivityRow(0, NullStr, NullStr, TRUE, "end", "null") }

\* db.logActivity(timestamp, appName, windowTitle, isAfk, afkType, project)
LogActivity(timestamp, e) ==
  /\ initialized' = init
  /\ activity_log' =
       IF init
       THEN Append(activity_log,
                   ActivityRow(timestamp, e.app_name, e.window_title,
                               e.is_afk, e.afk_type, e.project))
       ELSE activity_log
  /\ result' = Returned("logActivity", DateOf(timestamp), Null)
  /\ UNCHANGED <<migrationVars, sqlite, daily_summary, log_file, entries, now>>
  /\ UNCHANGED <<trackerVars, configVars, cacheVars>>

\* cfg.dailyGoalMinutes of DEFAULT_CONFIG
dailyGoalMinutes == 480

\* The SQL NULL of a numeric column: productiveSeconds = null.
NullNumber == -1

\* Mutant of upsert: the conflicting row is kept and a second row of the
\* date is inserted.
upsert_InsertOnly(rows, row) == rows \cup {row}

\* INSERT ... ON CONFLICT(date) DO UPDATE: date is UNIQUE, the conflicting
\* row is replaced by its updated version.
upsert(rows, row) ==
  { r \in rows : r.date # row.date } \cup {row}

\* Mutant of COALESCE: the column is set to what the call supplied, NULL
\* included.
COALESCE_Supplied(supplied, stored, null) == supplied

\* COALESCE(excluded.x, x) of the upsert: the supplied value unless it is
\* NULL, else the stored one (NULL when the row is freshly inserted).
COALESCE(supplied, stored, null) ==
  IF supplied # null THEN supplied ELSE stored

\* db.updateDailySummary(date, totalWorkSeconds, goalSeconds, sessionsCount,
\* productiveSeconds = null, projectsJson = null) executed at time t, on the
\* rows of daily_summary.
updateDailySummary(rows, date, totalWorkSeconds, goalSeconds, sessionsCount, productiveSeconds, projectsJson, t) ==
  LET old == { r \in rows : r.date = date }
      stored == IF old = {} THEN [ productive_seconds |-> NullNumber,
                                   projects_json      |-> NullStr ]
                ELSE CHOOSE r \in old : TRUE
  IN upsert(rows,
       [ date               |-> date,
         total_work_seconds |-> totalWorkSeconds,
         goal_seconds       |-> goalSeconds,
         sessions_count     |-> sessionsCount,
         productive_seconds |-> COALESCE(productiveSeconds,
                                  stored.productive_seconds, NullNumber),
         projects_json      |-> COALESCE(projectsJson,
                                  stored.projects_json, NullStr),
         updated_at         |-> t ])

\* updateDailySummaryInDB(date, totalWorkSeconds, sessionsCount), the
\* database's initialized flag being isInit when it is called.
updateDailySummaryInDB(rows, isInit, date, totalWorkSeconds, sessionsCount) ==
  IF ~sqlite \/ ~isInit THEN rows
  ELSE updateDailySummary(rows, date, totalWorkSeconds,
                          dailyGoalMinutes * 60, sessionsCount,
                          NullNumber, NullStr, now)

\* Mutant of CalculateWorkTimeForDate: the reconstruction saves what it
\* computed as the date's daily summary.
CalculateWorkTimeForDate_SavesSummary(date) ==
  LET value == IF init
               THEN calculateWorkTimeForDate(activity_log, date,
                      productiveApps, productiveWebsites, now)
               ELSE Null
  IN /\ initialized' = init
     /\ result' = Returned("calculateWorkTimeForDate", date, value)
     /\ daily_summary' =
          IF value = Null THEN daily_summary
          ELSE updateDailySummary(daily_summary, date, value.totalWorkSeconds,
                                  dailyGoalMinutes * 60, value.sessionsCount,
                                  NullNumber, NullStr, now)
     /\ UNCHANGED <<migrationVars, sqlite, activity_log, log_file, entries, now>>
     /\ UNCHANGED <<trackerVars, configVars, cacheVars>>

\* db.calculateWorkTimeForDate(date, productiveApps, productiveWebsites)
CalculateWorkTimeForDate(date) ==
  /\ initialized' = init
  /\ result' = Returned("calculateWorkTimeForDate", date,
                        IF init
                        THEN calculateWorkTimeForDate(activity_log, date,
                               productiveApps, productiveWebsites, now)
                        ELSE Null)
  /\ UNCHANGED <<migrationVars, sqlite, activity_log, daily_summary, log_file, entries, now>>
  /\ UNCHANGED <<trackerVars, configVars, cacheVars>>

\* Mutant of analyzeWorkTime: the null dbResult is handed to the caller.
analyzeWorkTime_NoNullCheck(date) ==
  IF ~sqlite THEN createEmptyResult(date)
  ELSE IF ~init THEN createEmptyResult(date)
  ELSE LET dbResult == calculateWorkTimeForDate(activity_log, date,
                         productiveApps, productiveWebsites, now)
       IN IF dbResult = Null THEN Null
          ELSE WorkTimeResult(date, dbResult)

\* analyzeWorkTime(logFilePath, targetDate) of the database-only workTracker.js
analyzeWorkTime(date) ==
  IF ~sqlite THEN createEmptyResult(date)
  ELSE IF ~init THEN createEmptyResult(date)
  ELSE LET dbResult == calculateWorkTimeForDate(activity_log, date,
                         productiveApps, productiveWebsites, now)
       IN IF dbResult = Null THEN createEmptyResult(date)
          ELSE WorkTimeResult(date, dbResult)

AnalyzeWorkTime(date) ==
  /\ initialized' = (IF sqlite THEN init ELSE initialized)
  /\ result' = Returned("analyzeWorkTime", date, analyzeWorkTime(date))
  /\ UNCHANGED <<migrationVars, sqlite, activity_log, daily_summary, log_file, entries, now>>
  /\ UNCHANGED <<trackerVars, configVars, cacheVars>>

\* The promise of analyzeWorkTimeFromTextLog is rejected: the read stream of
\* a file that does not exist fails.
Rejected == [ rejected |-> TRUE ]

\* analyzeWorkTime(logFilePath, targetDate) of the workTracker.js that falls
\* back to the text log.
analyzeWorkTimeWithFallback(date) ==
  LET dbResult == calculateWorkTimeForDate(activity_log, date,
                    productiveApps, productiveWebsites, now)
  IN IF sqlite /\ initialized /\ dbResult # Null
     THEN [ WorkTimeResult(date, dbResult)
              EXCEPT !.sessions = MapSessions(dbResult.sessions) ]
     ELSE IF ~log_exists THEN Rejected
     ELSE analyzeWorkTimeFromTextLog(log_file, date, now)

AnalyzeWorkTimeWithFallback(date) ==
  /\ result' = Returned("analyzeWorkTimeWithFallback", date,
                        analyzeWorkTimeWithFallback(date))
  /\ UNCHANGED <<migrationVars, sqlite, initialized, activity_log, daily_summary, log_file,
               entries, now>>
  /\ UNCHANGED <<trackerVars, configVars, cacheVars>>

\* logActivity() of the sampler that writes the text file and the database:
\* the writes of one tick for sample or marker e, stamped with the clock.
SamplerWrite(e) ==
  LET project == IF e.is_afk THEN e.project
                 ELSE detectProject(e.window_title, e.app_name, getKeywords)
  IN /\ log_file' = Append(log_file, LogLine(now, e))
     /\ activity_log' =
          IF sqlite /\ initialized
          THEN Append(activity_log,
                      ActivityRow(now, e.app_name, e.window_title,
                                  e.is_afk, e.afk_type, project))
          ELSE activity_log
     /\ IF e.is_afk THEN UNCHANGED cacheVars ELSE GetKeywords
     /\ log_exists' = TRUE
     /\ result' = Returned("logActivity", DateOf(now), Null)
     /\ UNCHANGED <<migration_status, sqlite, initialized, daily_summary, now>>
     /\ UNCHANGED <<trackerVars, configVars>>

\* updateWorkTime() of the menu bar: analyzeWorkTime(null), then the daily
\* summary of today is saved.
UpdateWorkTime ==
  LET today  == TodayStr(now)
      isInit == IF sqlite THEN init ELSE initialized
      value  == analyzeWorkTime(today)
  IN /\ initialized' = isInit
     /\ result' = Returned("analyzeWorkTime", today, value)
     /\ daily_summary' =
          updateDailySummaryInDB(daily_summary, isInit, today,
                                 value.totalWorkTime.totalSeconds,
                                 value.sessionsCount)
     /\ UNCHANGED <<migrationVars, sqlite, activity_log, log_file, entries, now>>
     /\ UNCHANGED <<trackerVars, configVars, cacheVars>>

\* The wall clock advances.
Tick ==
  /\ now < MaxTime
  /\ now' = now + 1
  /\ UNCHANGED <<migrationVars, sqlite, initialized, activity_log, daily_summary, log_file,
               entries, result>>
  /\ UNCHANGED <<trackerVars, configVars, cacheVars>>

\* ---------------------------------------------------------------- configuration

\* object[name] = value: an existing property keeps its place, a new one is
\* inserted last.
SetProperty(object, name, value) ==
  IF \E i \in 1..Len(object) : object[i].name = name
  THEN [ i \in 1..Len(object) |->
           IF object[i].name = name THEN value ELSE object[i] ]
  ELSE Append(object, value)

\* delete object[name]
DeleteProperty(object, name) ==
  SelectSeq(object, LAMBDA entry : entry.name # name)

\* { ...object, ...updates }
RECURSIVE SpreadInto(_, _)
SpreadInto(object, updates) ==
  IF updates = <<>> THEN object
  ELSE SpreadInto(SetProperty(object, Head(updates).name, Head(updates)),
                  Tail(updates))

Merge(object, updates) == SpreadInto(Spread(object), Spread(updates))

\* The project names and keyword lists the settings are edited with.
ProjectNames == { "Work", "7" }

KeywordLists == { << <<"vscode">> >>, << <<"alpha">> >> }

ProjectEntries ==
  { KeywordEntry(name, TRUE, keywords) :
      name \in ProjectNames, keywords \in KeywordLists }

\* The window titles and application names a classification is asked for.
DetectInputs ==
  { [ windowTitle |-> <<"alpha", " - ", "Visual Studio Code">>,
      appName     |-> <<"VSCode">> ],
    [ windowTitle |-> UnknownWindow, appName |-> <<"Slack">> ],
    [ windowTitle |-> NullStr, appName |-> NullStr ] }

\* projects.invalidateCache()
invalidateCache ==
  /\ cachedKeywords' = NoKeywords
  /\ lastKeywordsLoad' = NullDate

\* What an edit of the configuration returned.
Edited(op, value) == [ op |-> op, value |-> value ]

\* ipcMain.handle('save-config'): config.update({ projectKeywords: updates }),
\* the write of the file succeeding (saved) or failing; the keyword cache is
\* invalidated when update returned true.
SaveConfig(updates, saved) ==
  /\ Len(Merge(projectKeywords, updates)) <= MaxProjects
  /\ projectKeywords' = Merge(projectKeywords, updates)
  /\ keywordsShared' = FALSE
  /\ IF saved THEN invalidateCache ELSE UNCHANGED cacheVars
  /\ result' = Edited("save-config", [ returned |-> saved ])
  /\ UNCHANGED <<migrationVars, sqlite, initialized, activity_log, daily_summary, log_file,
               entries, now, defaultKeywords>>
  /\ UNCHANGED trackerVars

\* ipcMain.handle('reset-config'): config.reset(), this.config becomes
\* { ...DEFAULT_CONFIG }, whose projectKeywords is the object of
\* DEFAULT_CONFIG itself.
ResetConfig ==
  /\ projectKeywords' = defaultKeywords
  /\ keywordsShared' = TRUE
  /\ result' = Edited("reset-config", [ projectKeywords |-> defaultKeywords ])
  /\ UNCHANGED <<migrationVars, sqlite, initialized, activity_log, daily_summary, log_file,
               entries, now, defaultKeywords>>
  /\ UNCHANGED <<trackerVars, cacheVars>>

\* The assignment of this.config.projectKeywords in place: the object of
\* DEFAULT_CONFIG changes with it while the two are the same object.
AssignKeywords(object) ==
  /\ projectKeywords' = object
  /\ defaultKeywords' = IF keywordsShared THEN object ELSE defaultKeywords
  /\ UNCHANGED keywordsShared

\* config.setProjectKeywords(projectName, keywords), save() returning saved.
SetProjectKeywords(entry, saved) ==
  /\ Len(SetProperty(projectKeywords, entry.name, entry)) <= MaxProjects
  /\ AssignKeywords(SetProperty(projectKeywords, entry.name, entry))
  /\ result' = Edited("setProjectKeywords", [ returned |-> saved ])
  /\ UNCHANGED <<migrationVars, sqlite, initialized, activity_log, daily_summary, log_file,
               entries, now>>
  /\ UNCHANGED <<trackerVars, cacheVars>>

\* config.removeProject(projectName), save() returning saved when the
\* project is there.
RemoveProject(projectName, saved) ==
  LET present == \E i \in 1..Len(projectKeywords) :
                   projectKeywords[i].name = projectName
  IN /\ AssignKeywords(DeleteProperty(projectKeywords, projectName))
     /\ result' = Edited("removeProject",
                         [ returned |-> IF present THEN saved ELSE TRUE ])
     /\ UNCHANGED <<migrationVars, sqlite, initialized, activity_log, daily_summary,
                  log_file, entries, now>>
     /\ UNCHANGED <<trackerVars, cacheVars>>

\* projects.detectProject(windowTitle, appName) called by a client; result
\* keeps the call's arguments beside what it returned.
DetectProject(windowTitle, appName) ==
  /\ result' = [ op    |-> "detectProject",
                 value |-> detectProject(windowTitle, appName, getKeywords),
                 args  |-> [ windowTitle |-> windowTitle,
                             appName     |-> appName ] ]
  /\ IF windowTitle = NullStr /\ appName = NullStr
     THEN UNCHANGED cacheVars
     ELSE GetKeywords
  /\ UNCHANGED <<migrationVars, sqlite, initialized, activity_log, daily_summary, log_file,
               entries, now>>
  /\ UNCHANGED <<trackerVars, configVars>>

\* ---------------------------------------------------------------- sampler

\* cfg.afkThresholdSeconds of DEFAULT_CONFIG
afkThresholdSeconds == 180

\* getIdleThreshold()
getIdleThreshold == afkThresholdSeconds

\* The idle times detector.getIdleTime() may resolve with.
IdleTimes ==
  { afkThresholdSeconds - 1, afkThresholdSeconds, afkThresholdSeconds + 1 }

\* The application names detector.getActiveApp() may resolve with (null
\* among them) and the titles detector.getWindowTitle() may resolve with.
ActiveApps == { <<"VSCode">>, <<"Finder">>, NullStr }

WindowTitles == { UnknownWindow, <<"alpha", " - ", "Visual Studio Code">> }

\* A logActivity() call suspended at the await of pc; appName is its local
\* once getActiveApp has resolved, wrote the AFK markers it has logged.
Awaiting(pc, appName, wrote) ==
  [ pc |-> pc, appName |-> appName, wrote |-> wrote ]

RemoveAt(calls, i) ==
  SubSeq(calls, 1, i - 1) \o SubSeq(calls, i + 1, Len(calls))

\* logActivity() up to its first await (lines 39-53): the calls suspended
\* after it.
logActivityBegin(calls) ==
  IF ~sqlite THEN calls
  ELSE Append(calls, Awaiting("getIdleTime", NullStr, <<>>))

\* db.logActivity(...) called by the sampler: the rows of the table after it.
dbLogActivity(row) ==
  IF init THEN Append(activity_log, row) ELSE activity_log

\* startTracking()
StartTracking ==
  /\ Len(inflight) < MaxInFlight
  /\ initialized' = (IF sqlite THEN init ELSE initialized)
  /\ inflight' = IF trackingInterval THEN inflight
                 ELSE logActivityBegin(inflight)
  /\ trackingInterval' = TRUE
  /\ result' = Returned("startTracking", DateOf(now),
                        [ returned |-> ~trackingInterval ])
  /\ UNCHANGED <<migrationVars, sqlite, activity_log, daily_summary, log_file, entries, now,
                 isAFK, configVars, cacheVars>>

\* stopTracking()
StopTracking ==
  /\ trackingInterval' = FALSE
  /\ result' = Returned("stopTracking", DateOf(now),
                        [ returned |-> trackingInterval ])
  /\ UNCHANGED <<migrationVars, sqlite, initialized, activity_log, daily_summary, log_file,
                 entries, now, isAFK, inflight, configVars, cacheVars>>

\* reloadConfig(): stopTracking() and startTracking() when the timer is set.
ReloadConfig ==
  /\ Len(inflight) < MaxInFlight
  /\ initialized' = (IF trackingInterval /\ sqlite THEN init ELSE initialized)
  /\ inflight' = IF trackingInterval THEN logActivityBegin(inflight)
                 ELSE inflight
  /\ result' = Returned("reloadConfig", DateOf(now), Null)
  /\ UNCHANGED <<migrationVars, sqlite, activity_log, daily_summary, log_file, entries, now,
                 isAFK, trackingInterval, configVars, cacheVars>>

\* Mutant of TimerFires: the timer fires although clearInterval was called.
TimerFires_AfterClear ==
  /\ Len(inflight) < MaxInFlight
  /\ initialized' = (IF sqlite THEN init ELSE initialized)
  /\ inflight' = logActivityBegin(inflight)
  /\ UNCHANGED <<migrationVars, sqlite, activity_log, daily_summary, log_file, entries, now,
                 result, isAFK, trackingInterval, configVars, cacheVars>>

\* The timer set by setInterval(logActivity, ...) fires.
TimerFires ==
  /\ trackingInterval
  /\ Len(inflight) < MaxInFlight
  /\ initialized' = (IF sqlite THEN init ELSE initialized)
  /\ inflight' = logActivityBegin(inflight)
  /\ UNCHANGED <<migrationVars, sqlite, activity_log, daily_summary, log_file, entries, now,
                 result, isAFK, trackingInterval, configVars, cacheVars>>

\* Mutant of AboveThreshold: an idle time equal to the threshold counts.
AboveThreshold_Inclusive(idleTimeSeconds) ==
  idleTimeSeconds >= getIdleThreshold

\* idleTimeSeconds > idleThreshold
AboveThreshold(idleTimeSeconds) ==
  idleTimeSeconds > getIdleThreshold

\* detector.getIdleTime() resolves for call i (lines 53-71).
IdleResolves(i, idleTimeSeconds) ==
  /\ i \in 1..Len(inflight)
  /\ inflight[i].pc = "getIdleTime"
  /\ IF AboveThreshold(idleTimeSeconds)
     THEN /\ inflight' = RemoveAt(inflight, i)
          /\ isAFK' = TRUE
          /\ IF ~isAFK
             THEN /\ Len(activity_log) < MaxEvents
                  /\ initialized' = init
                  /\ activity_log' =
                       dbLogActivity(ActivityRow(now, NullStr, NullStr,
                                                 TRUE, "start", "null"))
                  /\ result' = Returned("logActivity", DateOf(now), Null)
             ELSE UNCHANGED <<initialized, activity_log, result>>
     ELSE IF isAFK
     THEN /\ Len(activity_log) < MaxEvents
          /\ isAFK' = FALSE
          /\ initialized' = init
          /\ activity_log' =
               dbLogActivity(ActivityRow(now, NullStr, NullStr,
                                         TRUE, "end", "null"))
          /\ result' = Returned("logActivity", DateOf(now), Null)
          /\ inflight' = [ inflight EXCEPT ![i] =
                             Awaiting("getActiveApp", NullStr, <<"end">>) ]
     ELSE /\ inflight' = [ inflight EXCEPT ![i] =
                             Awaiting("getActiveApp", NullStr, <<>>) ]
          /\ UNCHANGED <<isAFK, initialized, activity_log, result>>
  /\ UNCHANGED <<migrationVars, sqlite, daily_summary, log_file, entries, now,
                 trackingInterval, configVars, cacheVars>>

\* Mutant of Rejects: the abandoned call is started again.
Rejects_Retry(i, pc) ==
  /\ i \in 1..Len(inflight)
  /\ inflight[i].pc = pc
  /\ inflight' = [ inflight EXCEPT ![i] =
                     Awaiting("getIdleTime", NullStr, @.wrote) ]
  /\ UNCHANGED <<migrationVars, sqlite, initialized, activity_log, daily_summary, log_file,
                 entries, now, result, isAFK, trackingInterval, configVars,
                 cacheVars>>

\* An awaited detector call of call i rejects: catch (error) at lines 92-94.
Rejects(i, pc) ==
  /\ i \in 1..Len(inflight)
  /\ inflight[i].pc = pc
  /\ inflight' = RemoveAt(inflight, i)
  /\ UNCHANGED <<migrationVars, sqlite, initialized, activity_log, daily_summary, log_file,
                 entries, now, result, isAFK, trackingInterval, configVars,
                 cacheVars>>

\* detector.getIdleTime() rejects for call i.
IdleRejects(i) == Rejects(i, "getIdleTime")

\* detector.getActiveApp() rejects for call i.
AppRejects(i) == Rejects(i, "getActiveApp")

\* Lines 86-91 of call i: the project is detected and the sample is logged.
LogSample(i, appName, windowTitle) ==
  /\ Len(activity_log) < MaxEvents
  /\ inflight' = RemoveAt(inflight, i)
  /\ GetKeywords
  /\ initialized' = init
  /\ activity_log' =
       dbLogActivity(ActivityRow(now, appName, windowTitle, FALSE, "null",
                       detectProject(windowTitle, appName, getKeywords)))
  /\ result' = Returned("logActivity", DateOf(now), Null)
  /\ UNCHANGED <<migrationVars, sqlite, daily_summary, log_file, entries, now, isAFK,
                 trackingInterval, configVars>>

\* detector.getActiveApp() resolves for call i (lines 74-83).
AppResolves(i, appName) ==
  /\ i \in 1..Len(inflight)
  /\ inflight[i].pc = "getActiveApp"
  /\ IF /\ appName # NullStr
        /\ ~Includes(appName, <<"Finder">>)
        /\ ~Includes(appName, <<"Dock">>)
     THEN /\ inflight' = [ inflight EXCEPT ![i] =
                             Awaiting("getWindowTitle", appName, @.wrote) ]
          /\ UNCHANGED <<migrationVars, sqlite, initialized, activity_log, daily_summary,
                         log_file, entries, now, result, isAFK,
                         trackingInterval, configVars, cacheVars>>
     ELSE LogSample(i, appName, UnknownWindow)

\* detector.getWindowTitle(appName) resolves for call i.
TitleResolves(i, windowTitle) ==
  /\ i \in 1..Len(inflight)
  /\ inflight[i].pc = "getWindowTitle"
  /\ LogSample(i, inflight[i].appName, windowTitle)

\* detector.getWindowTitle(appName) rejects for call i: catch (e) at line 80.
TitleRejects(i) ==
  /\ i \in 1..Len(inflight)
  /\ inflight[i].pc = "getWindowTitle"
  /\ LogSample(i, inflight[i].appName, UnknownWindow)

\* activityTracker.js:10-12: the module's state when it is loaded.
InitTracker ==
  /\ isAFK = FALSE
  /\ trackingInterval = FALSE
  /\ inflight = <<>>

\* A first start: load() finds no config file and takes the defaults, the
\* project keyword map being the defaults' own (empty) object.
InitConfig ==
  /\ projectKeywords = <<>>
  /\ defaultKeywords = <<>>
  /\ keywordsShared = TRUE

\* ProjectManager.constructor
InitCache ==
  /\ cachedKeywords = NoKeywords
  /\ lastKeywordsLoad = NullDate

\* No row in migration_status.
NotMigrated == [ migrated |-> FALSE ]

\* A fresh installation: nothing migrated, no activity_log.txt yet.
InitMigration ==
  /\ migration_status = NotMigrated
  /\ log_exists = FALSE

\* ---------------------------------------------------------------- specification

Init ==
  /\ sqlite \in BOOLEAN
  /\ initialized = FALSE
  /\ activity_log = <<>>
  /\ daily_summary = {}
  /\ log_file = <<>>
  /\ entries = <<>>
  /\ now = StartTime
  /\ result = NoResult
  /\ InitTracker
  /\ InitConfig
  /\ InitCache
  /\ InitMigration

Next ==
  \/ /\ Len(activity_log) < MaxEvents
     /\ \E timestamp \in StartTime..now, e \in SampleInputs :
          LogActivity(timestamp, e)
  \/ \E date \in Dates : CalculateWorkTimeForDate(date)
  \/ \E date \in Dates : AnalyzeWorkTime(date)
  \/ Tick

Spec == Init /\ [][Next]_vars

\* ---------------------------------------------------------------- tracker runs

\* The sampler stamps each row with the clock; the menu bar refreshes and
\* saves today's summary; the statistics window reconstructs a date.
NextTracker ==
  \/ /\ Len(activity_log) < MaxEvents
     /\ \E e \in SampleInputs : LogActivity(now, e)
  \/ \E date \in Dates : CalculateWorkTimeForDate(date)
  \/ UpdateWorkTime
  \/ Tick

SpecTracker == Init /\ [][NextTracker]_vars

\* ---------------------------------------------------------------- summary runs

\* The arguments updateDailySummary is called with: work totals, goals and
\* session counts, and the optional productiveSeconds and projectsJson
\* (null when the caller leaves them out).
SummaryInputs ==
  { [ totalWorkSeconds |-> 14400, goalSeconds |-> dailyGoalMinutes * 60,
      sessionsCount |-> 2 ],
    [ totalWorkSeconds |-> 28800, goalSeconds |-> 36000,
      sessionsCount |-> 5 ] }
ProductiveInputs == { NullNumber, 3600 }
ProjectsJsonInputs == { NullStr, <<"{}">> }

\* db.updateDailySummary(...) called by a client; result keeps the call's
\* arguments beside what it returned.
UpdateDailySummary(date, totalWorkSeconds, goalSeconds, sessionsCount, productiveSeconds, projectsJson) ==
  /\ initialized' = init
  /\ daily_summary' =
       IF init
       THEN updateDailySummary(daily_summary, date, totalWorkSeconds,
              goalSeconds, sessionsCount, productiveSeconds, projectsJson,
              now)
       ELSE daily_summary
  /\ result' = [ op    |-> "updateDailySummary",
                 date  |-> date,
                 at    |-> now,
                 value |-> [ returned |-> init ],
                 args  |-> [ totalWorkSeconds  |-> totalWorkSeconds,
                             goalSeconds       |-> goalSeconds,
                             sessionsCount     |-> sessionsCount,
                             productiveSeconds |-> productiveSeconds,
                             projectsJson      |-> projectsJson ] ]
  /\ UNCHANGED <<migrationVars, sqlite, activity_log, log_file, entries, now>>
  /\ UNCHANGED <<trackerVars, configVars, cacheVars>>

\* db.getDailySummary(date): the date's row, null if there is none or the
\* database is unavailable.
getDailySummary(rows, date) ==
  IF \E r \in rows : r.date = date
  THEN CHOOSE r \in rows : r.date = date
  ELSE Null

GetDailySummary(date) ==
  /\ initialized' = init
  /\ result' = Returned("getDailySummary", date,
                 IF init THEN getDailySummary(daily_summary, date) ELSE Null)
  /\ UNCHANGED <<migrationVars, sqlite, activity_log, daily_summary, log_file, entries, now>>
  /\ UNCHANGED <<trackerVars, configVars, cacheVars>>

NextSummary ==
  \/ \E date \in Dates, call \in SummaryInputs,
        productiveSeconds \in ProductiveInputs,
        projectsJson \in ProjectsJsonInputs :
       UpdateDailySummary(date, call.totalWorkSeconds, call.goalSeconds,
                          call.sessionsCount, productiveSeconds, projectsJson)
  \/ \E date \in Dates : GetDailySummary(date)
  \/ Tick

SpecSummary == Init /\ [][NextSummary]_vars

\* ---------------------------------------------------------------- project runs

\* The settings window and the configuration's own methods edit the keyword
\* map; classifications are asked for in between; the clock advances.
NextProjects ==
  \/ \E updates \in { <<>> } \cup { <<entry>> : entry \in ProjectEntries },
        saved \in BOOLEAN :
       SaveConfig(updates, saved)
  \/ ResetConfig
  \/ \E entry \in ProjectEntries, saved \in BOOLEAN :
       SetProjectKeywords(entry, saved)
  \/ \E projectName \in ProjectNames, saved \in BOOLEAN :
       RemoveProject(projectName, saved)
  \/ \E input \in DetectInputs :
       DetectProject(input.windowTitle, input.appName)
  \/ Tick

\* The configuration loaded without a file: the defaults, no project yet.
InitProjects ==
  /\ sqlite = TRUE
  /\ initialized = FALSE
  /\ activity_log = <<>>
  /\ daily_summary = {}
  /\ log_file = <<>>
  /\ entries = <<>>
  /\ now = StartTime
  /\ result = NoResult
  /\ InitTracker
  /\ InitConfig
  /\ InitCache
  /\ InitMigration

SpecProjects == InitProjects /\ [][NextProjects]_vars

\* ---------------------------------------------------------------- classifier runs

\* The application names, window titles and allow-lists the classifier is
\* called with: a listed application, browsers (one whose name contains a
\* listed browser name), an application that is neither, no application;
\* titles with and without a listed website, and no title.
ClassifierApps ==
  { NullStr, <<"VSCode">>, <<"Google ", "Chrome">>, <<"Chrome">>,
    <<"Safari">>, <<"Slack">> }

ClassifierTitles ==
  { NullStr, <<"GitHub", " - ", "repo">>, <<"github.com", " - ", "repo">>,
    <<"stackoverflow.com", " - ", "Question">>, <<"YouTube", " - ", "Video">> }

ClassifierAppLists ==
  { <<>>, << <<"VSCode">> >>, << <<"VSCode">>, <<"Terminal">> >>,
    << <<"Chrome">> >> }

ClassifierSiteLists ==
  { <<>>, << <<"github.com">> >>,
    << <<"github.com">>, <<"stackoverflow.com">> >> }

\* db.isProductiveActivity(...) called by a client; result keeps the call's
\* arguments beside what it returned.
IsProductiveActivity(appName, windowTitle, apps, websites) ==
  /\ result' = [ op    |-> "isProductiveActivity",
                 value |-> [ returned |->
                   isProductiveActivity(appName, windowTitle, apps, websites) ],
                 args  |-> [ appName            |-> appName,
                             windowTitle        |-> windowTitle,
                             productiveApps     |-> apps,
                             productiveWebsites |-> websites ] ]
  /\ UNCHANGED <<migrationVars, sqlite, initialized, activity_log, daily_summary, log_file,
               entries, now>>
  /\ UNCHANGED <<trackerVars, configVars, cacheVars>>

\* isProductiveWork(entry) called by a client, the configuration holding
\* the allow-lists of the tests.
IsProductiveWork(entry) ==
  /\ result' = [ op    |-> "isProductiveWork",
                 value |-> [ returned |-> isProductiveWork(entry) ],
                 args  |-> [ entry |-> entry ] ]
  /\ UNCHANGED <<migrationVars, sqlite, initialized, activity_log, daily_summary, log_file,
               entries, now>>
  /\ UNCHANGED <<trackerVars, configVars, cacheVars>>

\* The log entry of an application and a window title.
EntryOf(appName, windowTitle) ==
  <<"App: ">> \o appName \o <<", Window: ">> \o windowTitle

NextClassifier ==
  \/ \E appName \in ClassifierApps, windowTitle \in ClassifierTitles,
        apps \in ClassifierAppLists, websites \in ClassifierSiteLists :
       IsProductiveActivity(appName, windowTitle, apps, websites)
  \/ \E appName \in ClassifierApps \ {NullStr},
        windowTitle \in ClassifierTitles \ {NullStr} :
       IsProductiveWork(EntryOf(appName, windowTitle))

SpecClassifier == InitProjects /\ [][NextClassifier]_vars

\* ---------------------------------------------------------------- goal progress

Min(a, b) == IF a <= b THEN a ELSE b

Max(a, b) == IF a >= b THEN a ELSE b

\* The quotients totalWorkSeconds / goalSeconds * 100 that are exactly
\* k + 0.5 and that the IEEE-754 double arithmetic of the expression yields
\* just below k + 0.5 (14.499999999999998 for 4176 / 28800 * 100), for the
\* goals of GoalMinutesInputs.
HalvesBelow ==
  { <<4176, 28800>>, <<8208, 28800>>, <<16272, 28800>>, <<16560, 28800>>,
    <<261, 1800>>, <<513, 1800>>, <<1017, 1800>>, <<1035, 1800>> }

\* Math.round((totalWorkSeconds / goalSeconds) * 100) in double arithmetic:
\* the nearest integer, a half going up, of the double the expression
\* yields; that double is off the exact quotient by less than any distance
\* between a quotient and a half other than zero.
RoundedPercent(totalWorkSeconds, goalSeconds) ==
  IF <<totalWorkSeconds, goalSeconds>> \in HalvesBelow
  THEN (100 * totalWorkSeconds) \div goalSeconds
  ELSE (200 * totalWorkSeconds + goalSeconds) \div (2 * goalSeconds)

\* getDailyGoalProgress(totalWorkSeconds), cfg.dailyGoalMinutes being
\* cfgDailyGoalMinutes; remainingFormatted is kept as its parts.
getDailyGoalProgress(totalWorkSeconds, cfgDailyGoalMinutes) ==
  LET goalMinutes == IF cfgDailyGoalMinutes = 0 THEN 480
                     ELSE cfgDailyGoalMinutes
      goalSeconds == goalMinutes * 60
      percentage  == Min(100, RoundedPercent(totalWorkSeconds, goalSeconds))
      remainingSeconds == Max(0, goalSeconds - totalWorkSeconds)
      remainingHours   == remainingSeconds \div 3600
      remainingMinutes == (remainingSeconds % 3600) \div 60
  IN [ percentage         |-> percentage,
       goalMinutes        |-> goalMinutes,
       remainingSeconds   |-> remainingSeconds,
       remainingFormatted |-> IF remainingHours > 0
                              THEN [ h |-> remainingHours,
                                     m |-> remainingMinutes ]
                              ELSE [ m |-> remainingMinutes ],
       isComplete         |-> totalWorkSeconds >= goalSeconds ]

\* The work totals (0 to 10 hours in steps of half a percent of the default
\* goal) and the configured goals (0 left by the settings form, half an
\* hour, the default) the progress is asked for.
WorkTotalInputs == { 144 * k : k \in 0..MaxWorkUnits }

GoalMinutesInputs == { 0, 30, dailyGoalMinutes }

\* getDailyGoalProgress(totalWorkSeconds) called by a client; result keeps
\* the call's argument and the configured goal beside what it returned.
GetDailyGoalProgress(totalWorkSeconds, cfgDailyGoalMinutes) ==
  /\ result' = [ op    |-> "getDailyGoalProgress",
                 value |-> getDailyGoalProgress(totalWorkSeconds,
                                                cfgDailyGoalMinutes),
                 args  |-> [ totalWorkSeconds |-> totalWorkSeconds,
                             dailyGoalMinutes |-> cfgDailyGoalMinutes ] ]
  /\ UNCHANGED <<migrationVars, sqlite, initialized, activity_log, daily_summary, log_file,
               entries, now>>
  /\ UNCHANGED <<trackerVars, configVars, cacheVars>>

NextGoal ==
  \E totalWorkSeconds \in WorkTotalInputs,
     cfgDailyGoalMinutes \in GoalMinutesInputs :
    GetDailyGoalProgress(totalWorkSeconds, cfgDailyGoalMinutes)

SpecGoal == InitProjects /\ [][NextGoal]_vars

\* ---------------------------------------------------------------- streak

\* if (streak > 365) break;
StreakLimit == 365

\* Mutant of MeetsGoal: a day counts as soon as it has a summary.
MeetsGoal_AnySummary(rows, date, goalSeconds) ==
  \E r \in rows : r.date = date

\* summary && (summary.total_work_seconds || 0) >= goalSeconds, summary being
\* db.getDailySummary(dateStr).
MeetsGoal(rows, date, goalSeconds) ==
  \E r \in rows : r.date = date /\ r.total_work_seconds >= goalSeconds

\* The values of streak at which the while (true) loop of calculateStreak
\* is left when it gets there: the day that many days before today (date
\* after streak times date.setDate(date.getDate() - 1)) fails the test, or
\* streak has passed the safety limit.
StreakExits(rows, today, goalSeconds) ==
  { streak \in 0..(StreakLimit + 1) :
      \/ streak > StreakLimit
      \/ ~MeetsGoal(rows, today - streak, goalSeconds) }

\* The loop: streak counts up from 0 and the loop is left at the first exit.
StreakWalk(rows, today, goalSeconds) ==
  LET exits == StreakExits(rows, today, goalSeconds)
  IN CHOOSE streak \in exits : \A other \in exits : streak <= other

\* calculateStreak(), cfg.dailyGoalMinutes being cfgDailyGoalMinutes.
calculateStreak(rows, cfgDailyGoalMinutes) ==
  IF ~sqlite \/ ~initialized THEN 0
  ELSE StreakWalk(rows, TodayStr(now), cfgDailyGoalMinutes * 60)

\* The day the streak runs are evaluated on, late enough for a store of
\* more days than the safety limit.
StreakToday == StreakLimit + 5

\* A stored summary of the day that is back days before StreakToday.
StoredSummary(back, totalWorkSeconds) ==
  [ date               |-> StreakToday - back,
    total_work_seconds |-> totalWorkSeconds,
    goal_seconds       |-> dailyGoalMinutes * 60,
    sessions_count     |-> 1,
    productive_seconds |-> NullNumber,
    projects_json      |-> NullStr,
    updated_at         |-> (StreakToday - back) * DayLen ]

\* The stores a streak is computed on: each of the last four days without a
\* summary, with a total below the default goal or with one that meets it;
\* and every one of the last n days meeting the goal, for n around the
\* safety limit.
RecentStores ==
  { { StoredSummary(back, kind[back]) : back \in { b \in 0..3 : kind[b] >= 0 } } :
      kind \in [ 0..3 -> { -1, 14400, 28800 } ] }

LongStores ==
  { { StoredSummary(back, 28800) : back \in 0..(n - 1) } :
      n \in (StreakLimit - 1)..(StreakLimit + 3) }

\* calculateStreak() called by the statistics handlers; result keeps the
\* configured goal beside what it returned.
CalculateStreak(cfgDailyGoalMinutes) ==
  /\ result' = [ op    |-> "calculateStreak",
                 value |-> [ streak |-> calculateStreak(daily_summary,
                                                        cfgDailyGoalMinutes) ],
                 args  |-> [ dailyGoalMinutes |-> cfgDailyGoalMinutes ] ]
  /\ UNCHANGED <<migrationVars, sqlite, initialized, activity_log, daily_summary, log_file,
               entries, now>>
  /\ UNCHANGED <<trackerVars, configVars, cacheVars>>

\* The database file of earlier runs holds the summaries; the database of
\* this run is initialised or not.
InitStreak ==
  /\ sqlite = TRUE
  /\ initialized \in BOOLEAN
  /\ activity_log = <<>>
  /\ daily_summary \in RecentStores \cup LongStores
  /\ log_file = <<>>
  /\ entries = <<>>
  /\ now = StreakToday * DayLen
  /\ result = NoResult
  /\ InitTracker
  /\ InitConfig
  /\ InitCache
  /\ InitMigration

NextStreak ==
  \E cfgDailyGoalMinutes \in { 0, dailyGoalMinutes } :
    CalculateStreak(cfgDailyGoalMinutes)

SpecStreak == InitStreak /\ [][NextStreak]_vars

\* ---------------------------------------------------------------- hourly histogram

\* The locals of the 'get-hourly-stats' handler before its loop; passed lists
\* the (start, end) pairs handed to addTimeToHours.
HourlyInit ==
  [ isAfk |-> FALSE, sessionStart |-> NullDate, passed |-> <<>> ]

\* addTimeToHours(hourlyMinutes, st.sessionStart, end) is called.
AddTime(st, end) ==
  [ st EXCEPT !.passed = Append(@, [ start |-> st.sessionStart,
                                     end   |-> end ]) ]

\* One iteration of the handler's loop over the date's rows.
HourlyStep(st, activity, apps, websites) ==
  LET timestamp == activity.timestamp IN
  IF activity.is_afk
  THEN IF activity.afk_type = "start"
       THEN LET added == IF st.sessionStart # NullDate /\ ~st.isAfk
                         THEN AddTime(st, timestamp)
                         ELSE st
            IN [ added EXCEPT !.sessionStart = NullDate, !.isAfk = TRUE ]
       ELSE IF activity.afk_type = "end"
       THEN [ st EXCEPT !.isAfk = FALSE ]
       ELSE st
  ELSE IF st.isAfk THEN st
  ELSE IF isProductiveActivity(activity.app_name, activity.window_title,
                               apps, websites)
  THEN IF st.sessionStart = NullDate
       THEN [ st EXCEPT !.sessionStart = timestamp ]
       ELSE st
  ELSE IF st.sessionStart # NullDate
  THEN [ AddTime(st, timestamp) EXCEPT !.sessionStart = NullDate ]
  ELSE st

\* The locals after the first k rows.
RECURSIVE HourlyPass(_, _, _, _)
HourlyPass(activities, k, apps, websites) ==
  IF k = 0 THEN HourlyInit
  ELSE HourlyStep(HourlyPass(activities, k - 1, apps, websites),
                  activities[k], apps, websites)

\* "Handle ongoing session" of the handler, evaluated at clock t.
HourlyOngoing(st, date, t) ==
  IF st.sessionStart # NullDate /\ ~st.isAfk /\ date = TodayStr(t)
  THEN AddTime(st, t)
  ELSE st

\* The pairs the handler hands to addTimeToHours for date, on an
\* initialised database holding log, at clock t.
HourlyIntervals(log, date, apps, websites, t) ==
  LET activities == getActivityForDate(log, date) IN
  IF Len(activities) = 0 THEN <<>>
  ELSE HourlyOngoing(HourlyPass(activities, Len(activities), apps, websites),
                     date, t).passed

\* Ticks in an hour, and current.getHours() of a clock value.
TicksPerHour == Max(1, 3600 \div TickSeconds)

HourOf(t) == (t \div TicksPerHour) % 24

\* addTimeToHours(hourlyMinutes, start, end): hour by hour from start, the
\* rounded minutes up to the end of the hour or to end are added to the
\* hour's bucket.
RECURSIVE addTimeToHours(_, _, _)
addTimeToHours(hourlyMinutes, current, end) ==
  IF ~(current < end) THEN hourlyMinutes
  ELSE LET nextHour   == (current \div TicksPerHour + 1) * TicksPerHour
           segmentEnd == Min(nextHour, end)
           minutes    == ((segmentEnd - current) * TickSeconds + 30) \div 60
       IN addTimeToHours(
            [ hourlyMinutes EXCEPT ![HourOf(current)] = @ + minutes ],
            nextHour, end)

RECURSIVE HourlyMinutes(_, _)
HourlyMinutes(passed, k) ==
  IF k = 0 THEN [ hour \in 0..23 |-> 0 ]
  ELSE addTimeToHours(HourlyMinutes(passed, k - 1),
                      passed[k].start, passed[k].end)

\* ipcMain.handle('get-hourly-stats'): the 24 buckets it returns; result
\* keeps beside them the pairs handed to addTimeToHours.
GetHourlyStats(date) ==
  LET passed == IF ~sqlite \/ ~initialized THEN <<>>
                ELSE HourlyIntervals(activity_log, date, productiveApps,
                                     productiveWebsites, now)
  IN /\ result' = [ op    |-> "get-hourly-stats",
                    date  |-> date,
                    at    |-> now,
                    value |-> [ hourlyMinutes |->
                                  HourlyMinutes(passed, Len(passed)),
                                passed |-> passed ] ]
     /\ UNCHANGED <<migrationVars, sqlite, initialized, activity_log, daily_summary,
                  log_file, entries, now>>
     /\ UNCHANGED <<trackerVars, configVars, cacheVars>>

\* Rows are logged with any timestamp up to the clock, the heat map of a
\* date is asked for, the clock advances.
NextHourly ==
  \/ /\ Len(activity_log) < MaxEvents
     /\ \E timestamp \in StartTime..now, e \in SampleInputs :
          LogActivity(timestamp, e)
  \/ \E date \in Dates : GetHourlyStats(date)
  \/ Tick

SpecHourly == Init /\ [][NextHourly]_vars

\* ---------------------------------------------------------------- sampler runs

\* The database module loaded; the menu bar starts and stops the sampler, the
\* timer fires, the awaited detector calls resolve or reject in any order.
InitSampler ==
  /\ sqlite = TRUE
  /\ initialized = FALSE
  /\ activity_log = <<>>
  /\ daily_summary = {}
  /\ log_file = <<>>
  /\ entries = <<>>
  /\ now = StartTime
  /\ result = NoResult
  /\ InitTracker
  /\ InitConfig
  /\ InitCache
  /\ InitMigration

NextSampler ==
  \/ StartTracking
  \/ StopTracking
  \/ ReloadConfig
  \/ TimerFires
  \/ \E i \in 1..MaxInFlight, idleTimeSeconds \in IdleTimes :
       IdleResolves(i, idleTimeSeconds)
  \/ \E i \in 1..MaxInFlight : IdleRejects(i)
  \/ \E i \in 1..MaxInFlight, appName \in ActiveApps : AppResolves(i, appName)
  \/ \E i \in 1..MaxInFlight : AppRejects(i)
  \/ \E i \in 1..MaxInFlight, windowTitle \in WindowTitles :
       TitleResolves(i, windowTitle)
  \/ \E i \in 1..MaxInFlight : TitleRejects(i)
  \/ (now < SamplerHorizon /\ Tick)

SpecSampler == InitSampler /\ [][NextSampler]_vars

\* ---------------------------------------------------------------- text-log runs

\* The sampler appends lines; the database module failed to load.
InitTextLog ==
  /\ sqlite = FALSE
  /\ initialized = FALSE
  /\ activity_log = <<>>
  /\ daily_summary = {}
  /\ log_file = <<>>
  /\ entries = <<>>
  /\ now = StartTime
  /\ result = NoResult
  /\ InitTracker
  /\ InitConfig
  /\ InitCache
  /\ InitMigration

NextTextLog ==
  \/ /\ Len(log_file) < MaxEvents
     /\ \E e \in SampleInputs : SamplerWrite(e)
     /\ UNCHANGED entries
  \/ \E date \in Dates : AnalyzeWorkTimeWithFallback(date)
  \/ Tick

SpecTextLog == InitTextLog /\ [][NextTextLog]_vars

\* ---------------------------------------------------------------- test streams

VSCodeSample ==
  ActivityRow(0, <<"VSCode">>, <<"test.js">>, FALSE, "null", "Uncategorized")

SlackSample == ActivityRow(0, <<"Slack">>, <<"Chat">>, FALSE, "null", "Uncategorized")

AfkStartMarker == ActivityRow(0, NullStr, NullStr, TRUE, "start", "null")

AfkEndMarker == ActivityRow(0, NullStr, NullStr, TRUE, "end", "null")

At(timestamp, e) == [ e EXCEPT !.timestamp = timestamp ]

\* 'analyzes work time from log file': 09:00, 09:30, 10:00 VSCode, 10:30 Slack,
\* 11:00 VSCode, one tick per half hour from 09:00.
EntriesProductive ==
  << At(0, VSCodeSample), At(1, VSCodeSample), At(2, VSCodeSample),
     At(3, SlackSample), At(4, VSCodeSample) >>

\* 'handles AFK markers correctly': 09:00, 09:30 VSCode, 10:00 AFK START,
\* 10:30 AFK END, 11:00 VSCode.
EntriesAfk ==
  << At(0, VSCodeSample), At(1, VSCodeSample), At(2, AfkStartMarker),
     At(3, AfkEndMarker), At(4, VSCodeSample) >>

\* The same stream from its 09:30 sample on.
EntriesAfkFrom0930 == Tail(EntriesAfk)

\* The clock starts at 09:00 of day 0; the database is initialised at startup
\* when the module loaded.
InitScenario ==
  /\ sqlite \in BOOLEAN
  /\ initialized = sqlite
  /\ activity_log = <<>>
  /\ daily_summary = {}
  /\ log_file = <<>>
  /\ entries \in { EntriesProductive, EntriesAfk, EntriesAfkFrom0930 }
  /\ now = 0
  /\ result = NoResult
  /\ InitTracker
  /\ InitConfig
  /\ InitCache
  /\ InitMigration

\* The sampler writes the next entry of the stream when its time has come.
ScenarioWrite ==
  /\ entries # <<>>
  /\ Head(entries).timestamp = now
  /\ SamplerWrite(Head(entries))
  /\ entries' = Tail(entries)

ScenarioTick ==
  /\ IF entries = <<>> THEN TRUE ELSE Head(entries).timestamp > now
  /\ Tick

NextScenario ==
  \/ ScenarioWrite
  \/ ScenarioTick
  \/ \E date \in Dates : CalculateWorkTimeForDate(date)
  \/ \E date \in Dates : AnalyzeWorkTimeWithFallback(date)

SpecScenario == InitScenario /\ [][NextScenario]_vars

\* ================================================================ claims

\* The last call is a reconstruction by calculateWorkTimeForDate that
\* returned a result object.  A write replaces result, so activity_log is
\* the log that call read.
Reconstructed ==
  /\ result.op = "calculateWorkTimeForDate"
  /\ result.value # Null

\* The rows the reconstruction walked and the loop's locals after them.
WalkedRows == getActivityForDate(activity_log, result.date)

WalkedPass == Pass(WalkedRows, Len(WalkedRows), productiveApps, productiveWebsites)

Session(start, end) ==
  [ start |-> start, end |-> end, duration |-> Duration(start, end) ]

\* ---------------------------------------------------------------- C1

\* The stream of 'analyzes work time from log file' is stored, and it was
\* reconstructed as today at an instant after its 11:00 sample.
C1_StreamQueriedToday ==
  /\ Reconstructed
  /\ activity_log = EntriesProductive
  /\ result.date = 0
  /\ TodayStr(result.at) = 0
  /\ result.at > 4

\* C1: with no AFK events, the non-productive 10:30 sample closes the session
\* opened at 09:00 at its own timestamp and the productive 11:00 sample opens
\* a new session at its own timestamp: queried as today the stream yields
\* exactly the two sessions 09:00-10:30 and 11:00-now, and totalWorkSeconds
\* is the sum of their durations.
C1_TwoSessions ==
  C1_StreamQueriedToday =>
    /\ result.value.sessionsCount = 2
    /\ result.value.sessions = << Session(0, 3), Session(4, result.at) >>
    /\ result.value.totalWorkSeconds
         = Duration(0, 3) + Duration(4, result.at)

C1_Witness == C1_StreamQueriedToday

\* ---------------------------------------------------------------- C2

\* The stream [09:30 productive, AfkStart 10:00, AfkEnd 10:30, 11:00
\* productive] is stored and was queried as today after its 11:00 sample.
C2_StreamStored ==
  /\ entries = <<>>
  /\ log_file = [ k \in 1..4 |->
                    LogLine(EntriesAfkFrom0930[k].timestamp, EntriesAfkFrom0930[k]) ]
  /\ result.date = 0
  /\ TodayStr(result.at) = 0
  /\ result.at > 4

C2_DatabasePass ==
  /\ Reconstructed
  /\ sqlite
  /\ C2_StreamStored

C2_TextLogPass ==
  /\ result.op = "analyzeWorkTimeWithFallback"
  /\ ~sqlite
  /\ C2_StreamStored

\* The seconds between the first sample (09:30) and the evaluation instant
\* that are in no session.
C2_Excluded(totalSeconds) == Duration(1, result.at) - totalSeconds

\* No session of the list is open at any instant strictly between 10:00 and
\* 11:00.
C2_NoneOpenDuringAfk(sessions) ==
  \A k \in 1..Len(sessions) : sessions[k].end <= 2 \/ sessions[k].start >= 4

\* C2 as claimed: the pre-AFK session closes at 10:00, no session is open
\* between 10:00 and 11:00, and exactly the 30 minutes of the AFK interval
\* are excluded from the total.
C2_GapThirtyMinutes ==
  /\ C2_DatabasePass =>
       /\ result.value.sessions[1].end = 2
       /\ C2_NoneOpenDuringAfk(result.value.sessions)
       /\ C2_Excluded(result.value.totalWorkSeconds) = Duration(2, 3)
  /\ C2_TextLogPass =>
       /\ result.value.sessions[1].end = 2
       /\ C2_NoneOpenDuringAfk(result.value.sessions)
       /\ C2_Excluded(result.value.totalWorkTime.totalSeconds) = Duration(2, 3)

\* C2 (amended): calculateWorkTimeForDate closes the pre-AFK session at
\* 10:00, has no session open between 10:00 and the 11:00 sample, and
\* excludes the 60 minutes from 10:00 to 11:00; the text-log pass closes the
\* pre-AFK session at 10:00 too but resumes at the AfkEnd, so it reports a
\* session from 10:30 and excludes exactly 30 minutes.
C2_GapUntilNextSample ==
  /\ C2_DatabasePass =>
       /\ result.value.sessions = << Session(1, 2), Session(4, result.at) >>
       /\ C2_NoneOpenDuringAfk(result.value.sessions)
       /\ C2_Excluded(result.value.totalWorkSeconds) = Duration(2, 4)
  /\ C2_TextLogPass =>
       /\ result.value.sessionsCount = 2
       /\ result.value.sessions[1].start = 1
       /\ result.value.sessions[1].end = 2
       /\ result.value.sessions[2].start = 3
       /\ result.value.sessions[2].end = result.at
       /\ C2_Excluded(result.value.totalWorkTime.totalSeconds) = Duration(2, 3)

C2_Witness == C2_DatabasePass

\* ---------------------------------------------------------------- C3

Productive(row) ==
  /\ ~row.is_afk
  /\ isProductiveActivity(row.app_name, row.window_title,
                          productiveApps, productiveWebsites)

\* Rows k and k+1 are consecutive productive samples of one open session and
\* a < b lie strictly between their timestamps.
C3_StrictlyInsideRun(k, a, b) ==
  /\ a < b
  /\ k \in 1..(Len(WalkedRows) - 1)
  /\ WalkedRows[k].timestamp < a
  /\ b < WalkedRows[k + 1].timestamp
  /\ Productive(WalkedRows[k])
  /\ Productive(WalkedRows[k + 1])
  /\ ~Pass(WalkedRows, k, productiveApps, productiveWebsites).isAfk

\* The reconstruction of the same date at the same instant with the pair
\* AfkStart@a, AfkEnd@b added to the log.
C3_WithAfkPair(a, b) ==
  calculateWorkTimeForDate(
    activity_log \o << At(a, AfkStartMarker), At(b, AfkEndMarker) >>,
    result.date, productiveApps, productiveWebsites, result.at)

C3_Instants == StartTime..MaxTime

\* C3 as claimed: the pair splits the run's session into two sessions whose
\* summed duration is the original minus the AFK gap b - a.
C3_SplitMinusAfkGap ==
  Reconstructed =>
    \A k \in 1..Len(WalkedRows), a, b \in C3_Instants :
      C3_StrictlyInsideRun(k, a, b) =>
        LET split == C3_WithAfkPair(a, b)
        IN /\ split.sessionsCount = result.value.sessionsCount + 1
           /\ split.totalWorkSeconds
                = result.value.totalWorkSeconds - Duration(a, b)

\* The session list in which session j = [s, e] is replaced by [s, a] and,
\* when e is later than t, by [t, e].
C3_SplitAt(sessions, j, a, t) ==
  SubSeq(sessions, 1, j - 1)
    \o << Session(sessions[j].start, a) >>
    \o (IF sessions[j].end > t THEN << Session(t, sessions[j].end) >> ELSE <<>>)
    \o SubSeq(sessions, j + 1, Len(sessions))

\* C3 (amended): the pair, inserted strictly between two consecutive
\* productive samples of an open session [s, e], replaces that session by
\* [s, a] and, when e is later than the next sample t, by [t, e]: the summed
\* duration is the original minus (t - a), where t > b is the timestamp of
\* the first productive sample after the AfkEnd.
C3_SplitMinusGapToNextSample ==
  Reconstructed =>
    \A k \in 1..Len(WalkedRows), a, b \in C3_Instants :
      C3_StrictlyInsideRun(k, a, b) =>
        LET t == WalkedRows[k + 1].timestamp
            s == Pass(WalkedRows, k, productiveApps, productiveWebsites).sessionStart
            split == C3_WithAfkPair(a, b)
        IN /\ \E j \in 1..Len(result.value.sessions) :
                /\ result.value.sessions[j].start = s
                /\ result.value.sessions[j].end >= t
                /\ split.sessions = C3_SplitAt(result.value.sessions, j, a, t)
           /\ split.totalWorkSeconds
                = result.value.totalWorkSeconds - Duration(a, t)

C3_Witness ==
  /\ Reconstructed
  /\ \E k \in 1..Len(WalkedRows), a, b \in C3_Instants :
       /\ C3_StrictlyInsideRun(k, a, b)
       /\ C3_WithAfkPair(a, b).sessionsCount = 2

\* ---------------------------------------------------------------- C4

\* A non-empty day with no AFK rows whose samples are all productive was
\* reconstructed.
C4_AllProductive ==
  /\ Reconstructed
  /\ \A k \in 1..Len(WalkedRows) : Productive(WalkedRows[k])

\* C4: for a non-empty single-day stream with no AFK events and only
\* productive samples, totalWorkSeconds is the time from the first event to
\* the last event for a past date, and from the first event to now for today.
C4_ElapsedTime ==
  C4_AllProductive =>
    result.value.totalWorkSeconds
      = IF result.date = TodayStr(result.at)
        THEN Duration(WalkedRows[1].timestamp, result.at)
        ELSE Duration(WalkedRows[1].timestamp,
                      WalkedRows[Len(WalkedRows)].timestamp)

C4_Witness ==
  /\ C4_AllProductive
  /\ result.date < TodayStr(result.at)
  /\ WalkedRows[1].timestamp < WalkedRows[Len(WalkedRows)].timestamp

\* ---------------------------------------------------------------- C5

RECURSIVE SumDurations(_)
SumDurations(sessions) ==
  IF sessions = <<>> THEN 0
  ELSE sessions[1].duration + SumDurations(Tail(sessions))

\* C5: whatever rows were logged, in whatever order and with whatever
\* duplicate timestamps, a result has totalWorkSeconds >= 0, only sessions of
\* duration > 0 (the seconds from start to end), sessionsCount equal to the
\* number of listed sessions and totalWorkSeconds equal to the sum of the
\* listed durations.
C5_PositiveSessionsSumToTotal ==
  Reconstructed =>
    /\ result.value.totalWorkSeconds >= 0
    /\ \A k \in 1..Len(result.value.sessions) :
         /\ result.value.sessions[k].duration > 0
         /\ result.value.sessions[k].duration
              = Duration(result.value.sessions[k].start,
                         result.value.sessions[k].end)
    /\ result.value.sessionsCount = Len(result.value.sessions)
    /\ result.value.totalWorkSeconds = SumDurations(result.value.sessions)

\* An interval of duration zero was closed: by a row bearing the timestamp
\* the session started at (duplicate timestamps), or by the clock standing
\* at the start of the session left open.
C5_EmptyIntervalClosed ==
  \/ \E k \in 2..Len(WalkedRows) :
       LET st == Pass(WalkedRows, k - 1, productiveApps, productiveWebsites)
       IN /\ st.sessionStart = WalkedRows[k].timestamp
          /\ ~st.isAfk
          /\ ~Productive(WalkedRows[k])
  \/ /\ result.date = TodayStr(result.at)
     /\ WalkedPass.sessionStart = result.at
     /\ ~WalkedPass.isAfk

\* The rows were logged out of order, an interval of duration zero was
\* closed, and it is not among the listed sessions.
C5_Witness ==
  /\ Reconstructed
  /\ \E k \in 2..Len(activity_log) :
       activity_log[k].timestamp < activity_log[k - 1].timestamp
  /\ C5_EmptyIntervalClosed
  /\ \A j \in 1..Len(result.value.sessions) :
       result.value.sessions[j].start # result.value.sessions[j].end

\* ---------------------------------------------------------------- C6

\* The pass over today's rows left a session open with afk false.
C6_OpenToday ==
  /\ Reconstructed
  /\ result.date = TodayStr(result.at)
  /\ WalkedPass.sessionStart # NullDate
  /\ ~WalkedPass.isAfk

\* C6: a session still open after the pass over today's rows is closed at
\* the evaluation instant: it is reported from sessionStart to now, and an
\* evaluation of the same rows at a later instant of the day reports the
\* total grown by the time elapsed between the two instants.
C6_OpenSessionEndsNow ==
  C6_OpenToday =>
    /\ result.at > WalkedPass.sessionStart =>
         /\ result.value.sessions # <<>>
         /\ result.value.sessions[Len(result.value.sessions)]
              = Session(WalkedPass.sessionStart, result.at)
    /\ result.value.totalWorkSeconds
         = WalkedPass.totalWorkSeconds
             + Duration(WalkedPass.sessionStart, result.at)
    /\ TodayStr(now) = result.date =>
         calculateWorkTimeForDate(activity_log, result.date, productiveApps,
                                  productiveWebsites, now).totalWorkSeconds
           = result.value.totalWorkSeconds + Duration(result.at, now)

C6_Witness ==
  /\ C6_OpenToday
  /\ WalkedRows[Len(WalkedRows)].timestamp < result.at
  /\ result.at < now
  /\ TodayStr(now) = result.date

\* ---------------------------------------------------------------- C7

\* The locals of the text-log pass over the lines of the reconstructed date.
C7_TextPass == TextPass(log_file, Len(log_file), result.date)

\* The text-log pass reconstructed a past date and left a session open with
\* isAFK false.
C7_OpenInPast ==
  /\ result.op = "analyzeWorkTimeWithFallback"
  /\ result.date < TodayStr(result.at)
  /\ C7_TextPass.currentSession # NullDate
  /\ ~C7_TextPass.isAFK

\* C7 as claimed, on the text-log pass: a session left open by the pass over
\* a past date is closed at lastTimestamp, never at now.
C7_PastClosesAtLastTimestamp ==
  C7_OpenInPast =>
    result.value.sessions
      = MapSessions(TextRecord(C7_TextPass, C7_TextPass.lastTimestamp).workSessions)

\* ---------------------------------------------------------------- C8

\* The initialised database was asked to reconstruct a date for which the
\* activity log holds no row.
C8_NoEvents ==
  /\ sqlite
  /\ initialized
  /\ result.op \in {"calculateWorkTimeForDate", "analyzeWorkTime"}
  /\ getActivityForDate(activity_log, result.date) = <<>>

\* C8 as claimed: both calculateWorkTimeForDate and analyzeWorkTime answer a
\* date with zero events with the zero-filled result, never with null.
C8_ZeroFilledFromBoth ==
  C8_NoEvents =>
    /\ result.value # Null
    /\ result.value.sessionsCount = 0
    /\ result.value.sessions = <<>>
    /\ IF result.op = "calculateWorkTimeForDate"
       THEN result.value.totalWorkSeconds = 0
       ELSE result.value.totalWorkTime.totalSeconds = 0

\* C8 (amended): for a date with zero events calculateWorkTimeForDate
\* returns null, and analyzeWorkTime turns that null into the zero-filled
\* result (totalSeconds 0, sessionsCount 0, no sessions).
C8_NullThenZeroFilled ==
  C8_NoEvents =>
    IF result.op = "calculateWorkTimeForDate"
    THEN result.value = Null
    ELSE /\ result.value # Null
         /\ result.value.totalWorkTime.totalSeconds = 0
         /\ result.value.sessionsCount = 0
         /\ result.value.sessions = <<>>

C8_Witness ==
  /\ C8_NoEvents
  /\ result.op = "analyzeWorkTime"
  /\ activity_log # <<>>

\* ---------------------------------------------------------------- C9

\* A step in which calculateWorkTimeForDate answers the date it answered in
\* the call before; no write came between the two calls.
C9_SecondRun ==
  /\ result.op = "calculateWorkTimeForDate"
  /\ result'.op = "calculateWorkTimeForDate"
  /\ result'.date = result.date
  /\ result' # result

\* C9 as claimed: the second of two runs over the same rows returns what
\* the first returned, and changes neither the event log nor a daily summary.
C9_SameResultTwice ==
  [][ C9_SecondRun =>
        /\ result'.value = result.value
        /\ UNCHANGED <<activity_log, daily_summary, log_file>> ]_vars

\* The reconstruction does not depend on the instant between t1 and t2: the
\* pass leaves no session to close, or the date is today at neither instant.
C9_ClockFree(t1, t2) ==
  \/ t1 = t2
  \/ WalkedPass.sessionStart = NullDate
  \/ WalkedPass.isAfk
  \/ /\ result.date # TodayStr(t1)
     /\ result.date # TodayStr(t2)

\* C9 (amended): neither run changes the event log or a daily summary, and
\* the second run returns what the first returned when the pass leaves no
\* session open or the date is today at neither evaluation; a session left
\* open on today's date is closed at each run's own clock reading.
C9_SameResultUnlessOpenToday ==
  [][ C9_SecondRun =>
        /\ UNCHANGED <<activity_log, daily_summary, log_file>>
        /\ C9_ClockFree(result.at, result'.at) => result'.value = result.value
     ]_vars

\* A result with sessions is held from an earlier instant, a daily summary
\* is stored, and a run at the present instant returns the same result.
C9_Witness ==
  /\ Reconstructed
  /\ result.value.sessionsCount > 0
  /\ result.at < now
  /\ daily_summary # {}
  /\ C9_ClockFree(result.at, now)
  /\ calculateWorkTimeForDate(activity_log, result.date, productiveApps,
                              productiveWebsites, now) = result.value

\* ---------------------------------------------------------------- C10

\* The row of the walk that opened the session starting at start: a
\* productive sample met while no session was open and afk was false.
C10_Opens(k, start) ==
  /\ Productive(WalkedRows[k])
  /\ WalkedRows[k].timestamp = start
  /\ LET st == Pass(WalkedRows, k - 1, productiveApps, productiveWebsites)
     IN st.sessionStart = NullDate /\ ~st.isAfk

\* C10 as claimed: every session carries a project label, the project of the
\* row that opened it.
C10_SessionCarriesOpeningProject ==
  Reconstructed =>
    \A j \in 1..Len(result.value.sessions) :
      /\ "project" \in DOMAIN result.value.sessions[j]
      /\ \E k \in 1..Len(WalkedRows) :
           /\ C10_Opens(k, result.value.sessions[j].start)
           /\ result.value.sessions[j].project = WalkedRows[k].project

\* The log with every row's project replaced by label.
C10_Relabel(log, label) ==
  [ k \in 1..Len(log) |-> [ log[k] EXCEPT !.project = label ] ]

\* C10 (amended): a reconstructed session consists of start, end and
\* duration and carries no project label; it starts at the timestamp of the
\* productive sample that opened it, later productive samples of the open
\* session change nothing, and the projects of the rows have no influence on
\* the result.
C10_SessionsWithoutProject ==
  Reconstructed =>
    /\ \A j \in 1..Len(result.value.sessions) :
         /\ DOMAIN result.value.sessions[j] = {"start", "end", "duration"}
         /\ \E k \in 1..Len(WalkedRows) :
              C10_Opens(k, result.value.sessions[j].start)
    /\ \A label \in {"alpha", "beta"} :
         calculateWorkTimeForDate(C10_Relabel(activity_log, label),
                                  result.date, productiveApps,
                                  productiveWebsites, result.at)
           = result.value

\* A session opened by a sample of project alpha went on through a later
\* sample of project beta.
C10_Witness ==
  /\ Reconstructed
  /\ result.value.sessionsCount = 1
  /\ \E k \in 2..Len(WalkedRows) :
       /\ C10_Opens(k - 1, result.value.sessions[1].start)
       /\ WalkedRows[k - 1].project = "alpha"
       /\ Productive(WalkedRows[k])
       /\ WalkedRows[k].project = "beta"
       /\ WalkedRows[k].timestamp > WalkedRows[k - 1].timestamp
       /\ result.value.sessions[1].end >= WalkedRows[k].timestamp

\* ---------------------------------------------------------------- C11

IsAfkMarker(row) == row.is_afk

\* The AFK markers of the event log, in log order.
AfkMarkers(log) == SelectSeq(log, IsAfkMarker)

AfkMarker(timestamp, afkType) ==
  ActivityRow(timestamp, NullStr, NullStr, TRUE, afkType, "null")

\* The markers of the log are AfkStart, AfkEnd, AfkStart, ... and the sampler
\* is in Afk exactly after an AfkStart.
C11_MarkersAlternate ==
  /\ \A k \in 1..Len(AfkMarkers(activity_log)) :
       AfkMarkers(activity_log)[k].afk_type
         = (IF k % 2 = 1 THEN "start" ELSE "end")
  /\ isAFK = (Len(AfkMarkers(activity_log)) % 2 = 1)

\* What a tick does with its idle sample: Afk exactly when the sample is
\* strictly above the threshold, one marker when the state changes, none
\* otherwise; nothing else changes the state.
C11_Transitions ==
  /\ \A i \in 1..MaxInFlight, idleTimeSeconds \in IdleTimes :
       IdleResolves(i, idleTimeSeconds) =>
         /\ isAFK' = (idleTimeSeconds > afkThresholdSeconds)
         /\ activity_log' =
              IF isAFK' = isAFK THEN activity_log
              ELSE Append(activity_log,
                          AfkMarker(now, IF isAFK' THEN "start" ELSE "end"))
  /\ isAFK' # isAFK =>
       \E i \in 1..MaxInFlight, idleTimeSeconds \in IdleTimes :
         IdleResolves(i, idleTimeSeconds)

\* C11: starting in Active, a tick whose idle sample is strictly greater
\* than afkThresholdSeconds moves Active -> Afk and appends exactly one
\* AfkStart (ticks above the threshold while in Afk append nothing); a tick
\* whose sample is at or below the threshold moves Afk -> Active and appends
\* exactly one AfkEnd; a sample equal to the threshold never enters Afk.
C11_AfkStateMachine ==
  []C11_MarkersAlternate /\ [][C11_Transitions]_vars

\* The sampler went to Afk and came back: the log holds AfkStart, AfkEnd.
C11_Witness ==
  /\ ~isAFK
  /\ Len(AfkMarkers(activity_log)) = 2
  /\ AfkMarkers(activity_log)[1].timestamp < AfkMarkers(activity_log)[2].timestamp

\* ---------------------------------------------------------------- C12

\* The last AFK marker among the first k rows of the log is an AfkStart.
AfkOpenAfter(log, k) ==
  LET markers == AfkMarkers(SubSeq(log, 1, k))
  IN IF markers = <<>> THEN FALSE
     ELSE markers[Len(markers)].afk_type = "start"

\* C12 as claimed: in the log no Activity event follows an AfkStart before
\* the next AfkEnd, whatever the interleaving of the ticks.
C12_NoActivityWhileAfk ==
  \A k \in 1..Len(activity_log) :
    ~activity_log[k].is_afk => ~AfkOpenAfter(activity_log, k - 1)

\* ---------------------------------------------------------------- C13

\* C13 as claimed: at no time are two logActivity calls in progress.
C13_TicksNeverOverlap == Len(inflight) <= 1

\* ---------------------------------------------------------------- C14

\* Call i is abandoned at this step because an awaited detector call
\* rejected.
C14_Abandoned(i) == IdleRejects(i) \/ AppRejects(i)

\* C14 as claimed: a tick whose idle-time or foreground-app query rejects
\* has appended no event, and leaves the sampler as if it had not run.
C14_FailedTickWroteNothing ==
  [][ \A i \in 1..MaxInFlight :
        C14_Abandoned(i) =>
          /\ inflight[i].wrote = <<>>
          /\ UNCHANGED <<activity_log, isAFK, trackingInterval>> ]_vars

\* C14 (amended): the rejection itself changes neither the store nor the
\* sampler's state nor the timer, and the tick logs no Activity event; a
\* tick whose idle-time query rejects has appended nothing, while a tick
\* whose foreground-app query rejects has appended nothing or, when it found
\* the user back from Afk, the one AfkEnd marker it logged before the query,
\* which stays in the store with isAFK false.
C14_FailedTickWroteNoSample ==
  [][ \A i \in 1..MaxInFlight :
        /\ C14_Abandoned(i) =>
             /\ UNCHANGED <<activity_log, isAFK, trackingInterval>>
             /\ inflight' = RemoveAt(inflight, i)
        /\ IdleRejects(i) => inflight[i].wrote = <<>>
        /\ AppRejects(i) => inflight[i].wrote \in { <<>>, <<"end">> }
        /\ (AppRejects(i) /\ inflight[i].wrote = <<"end">>) =>
             \E k \in 1..Len(activity_log) :
               /\ activity_log[k].is_afk
               /\ activity_log[k].afk_type = "end" ]_vars

\* A call that logged an AfkEnd is suspended at getActiveApp with the timer
\* set: its foreground-app query may reject now.
C14_Witness ==
  /\ trackingInterval
  /\ \E i \in 1..Len(inflight) :
       /\ inflight[i].pc = "getActiveApp"
       /\ inflight[i].wrote = <<"end">>
  /\ ~isAFK
  /\ Len(AfkMarkers(activity_log)) = 2

\* ---------------------------------------------------------------- C15

\* The rows of daily_summary of a date.
SummaryRowsOf(rows, date) == { r \in rows : r.date = date }

C15_OneRowPerDate ==
  \A date \in Dates : Cardinality(SummaryRowsOf(daily_summary, date)) <= 1

C15_RowHoldsLastCall ==
  (result.op = "updateDailySummary" /\ result.value.returned)
    => \E r \in daily_summary :
         /\ SummaryRowsOf(daily_summary, result.date) = {r}
         /\ r.total_work_seconds = result.args.totalWorkSeconds
         /\ r.goal_seconds = result.args.goalSeconds
         /\ r.sessions_count = result.args.sessionsCount

C15_OtherDatesKept ==
  \A date \in Dates :
    (result'.op = "updateDailySummary" /\ result'.date # date)
      => SummaryRowsOf(daily_summary', date)
           = SummaryRowsOf(daily_summary, date)

\* C15: after any sequence of updateDailySummary calls there is at most one
\* daily summary row per date, and the row of a date holds the
\* totalWorkSeconds, goalSeconds and sessionsCount of the most recent call
\* for that date: the call just made wrote them, and a call for another
\* date leaves the date's row alone.
C15_LastWriteWins ==
  /\ [](C15_OneRowPerDate /\ C15_RowHoldsLastCall)
  /\ [][C15_OtherDatesKept]_vars

\* C15 witness: a second call for a date that already had a row, with
\* other totals, has replaced them (the row was written after the start and
\* holds the latest call's numbers).
C15_Witness ==
  /\ result.op = "updateDailySummary"
  /\ result.value.returned
  /\ result.at > StartTime
  /\ result.args.totalWorkSeconds = 28800
  /\ result.args.sessionsCount = 5
  /\ \E r \in daily_summary :
       /\ r.date = result.date
       /\ r.total_work_seconds = 28800
       /\ r.sessions_count = 5
       /\ r.productive_seconds = 3600
       /\ result.args.productiveSeconds = NullNumber
  /\ \E r \in daily_summary : r.date # result.date

\* ---------------------------------------------------------------- C16

\* The row the date had before the call, if it had one.
C16_Merged(stored, supplied, null, after) ==
  after = (IF supplied = null THEN stored ELSE supplied)

\* C16: when updateDailySummary is called for a date that already has a
\* row, a productiveSeconds (projectsJson) the call does not supply leaves
\* the stored productiveSeconds (projectsJson) of the row unchanged, and a
\* supplied value replaces the stored one.
C16_MergeOnWrite ==
  [][ (result'.op = "updateDailySummary" /\ result'.value.returned)
        => \A old \in SummaryRowsOf(daily_summary, result'.date) :
             \A new \in SummaryRowsOf(daily_summary', result'.date) :
               /\ C16_Merged(old.productive_seconds,
                             result'.args.productiveSeconds, NullNumber,
                             new.productive_seconds)
               /\ C16_Merged(old.projects_json,
                             result'.args.projectsJson, NullStr,
                             new.projects_json) ]_vars

\* C16 witness: the latest call supplied a projectsJson and no
\* productiveSeconds for a date whose row had been written earlier; the row
\* still holds the earlier productiveSeconds beside the new projectsJson.
C16_Witness ==
  /\ result.op = "updateDailySummary"
  /\ result.value.returned
  /\ result.args.productiveSeconds = NullNumber
  /\ result.args.projectsJson = <<"{}">>
  /\ \E r \in daily_summary :
       /\ r.date = result.date
       /\ r.updated_at = result.at
       /\ r.productive_seconds = 3600
       /\ r.projects_json = <<"{}">>

\* ---------------------------------------------------------------- C17

\* C17: every edit of the project keyword map made through the
\* configuration surface invalidates the keyword cache before the next
\* detectProject call, so a classification uses the map as edited and never
\* the pre-edit cached map: what detectProject returned is what the
\* configured map gives for its arguments.
C17_ClassifiedWithEditedMap ==
  result.op = "detectProject"
    => result.value = detectProject(result.args.windowTitle,
                                    result.args.appName, projectKeywords)

\* ---------------------------------------------------------------- C18

C18_BrowserNames ==
  { <<"Safari">>, <<"Google ", "Chrome">>, <<"Chrome">>, <<"Firefox">>,
    <<"Edge">>, <<"Brave">> }

\* The reference classification.
C18_Reference(appName, windowTitle, apps, websites) ==
  CASE appName = NullStr -> FALSE
    [] appName # NullStr
         /\ (\E i \in 1..Len(apps) : Includes(appName, apps[i])) -> TRUE
    [] appName # NullStr
         /\ ~(\E i \in 1..Len(apps) : Includes(appName, apps[i]))
         /\ (\E browser \in C18_BrowserNames : Includes(appName, browser)) ->
           /\ windowTitle # NullStr
           /\ \E i \in 1..Len(websites) : Includes(windowTitle, websites[i])
    [] OTHER -> FALSE

C19_GitHubTitleProductive ==
  /\ ( /\ result.op = "isProductiveActivity"
       /\ result.args.appName = <<"Google ", "Chrome">>
       /\ result.args.windowTitle = <<"GitHub", " - ", "repo">>
       /\ result.args.productiveApps = <<>>
       /\ result.args.productiveWebsites
            = << <<"github.com">>, <<"stackoverflow.com">> >> )
       => result.value.returned
  /\ ( /\ result.op = "isProductiveWork"
       /\ result.args.entry
            = EntryOf(<<"Google ", "Chrome">>, <<"GitHub", " - ", "repo">>) )
       => result.value.returned

\* ---------------------------------------------------------------- C20

\* The configured projects, in the order they were inserted in the keyword
\* map, that have a keyword contained (case-insensitively) in the window
\* title and application name.
C20_Matching(windowTitle, appName) ==
  KeywordHits(projectKeywords,
              toLowerCase(windowTitle \o <<" ">> \o appName))

C20_FirstInserted(windowTitle, appName) ==
  LET hits == C20_Matching(windowTitle, appName)
  IN projectKeywords[CHOOSE i \in hits : \A j \in hits : i <= j].name

\* C20: detectProject tries the configured keywords before any heuristic
\* and resolves ties by configuration order: a call that reads the
\* configured map and finds a keyword of some project in the title and
\* application name returns the first such project in the map's insertion
\* order, whatever the title heuristics would extract.
C20_FirstInsertedProjectWins ==
  [][ \A input \in DetectInputs :
        ( /\ DetectProject(input.windowTitle, input.appName)
          /\ input.windowTitle \o input.appName # NullStr
          /\ getKeywords = getProjectKeywords
          /\ C20_Matching(input.windowTitle, input.appName) # {} )
          => result'.value
               = C20_FirstInserted(input.windowTitle, input.appName) ]_vars

\* ---------------------------------------------------------------- C21

\* C21 as claimed: with goalSeconds = dailyGoalMinutes * 60,
\* getDailyGoalProgress returns percentage = min(100, round(totalWorkSeconds
\* / goalSeconds * 100)), remainingSeconds = max(0, goalSeconds -
\* totalWorkSeconds) and isComplete = (totalWorkSeconds >= goalSeconds), for
\* every non-negative totalWorkSeconds and every goal that is set.
C21_ProgressFormulas ==
  (result.op = "getDailyGoalProgress" /\ result.args.dailyGoalMinutes > 0)
    => LET total == result.args.totalWorkSeconds
           goalSeconds == result.args.dailyGoalMinutes * 60
       IN /\ result.value.percentage
               = Min(100, (200 * total + goalSeconds) \div (2 * goalSeconds))
          /\ result.value.remainingSeconds = Max(0, goalSeconds - total)
          /\ result.value.isComplete = (total >= goalSeconds)

\* ---------------------------------------------------------------- C22

\* The days, today and before, that have no stored summary with a total of
\* at least the goal, and the length of the run of qualifying days ending
\* today.
C22_Failing(goalSeconds) ==
  LET qualifying == { r.date : r \in { q \in daily_summary :
                                         q.total_work_seconds >= goalSeconds } }
  IN { d \in -1..TodayStr(now) : d \notin qualifying }

C22_Run(goalSeconds) ==
  LET failing == C22_Failing(goalSeconds)
  IN TodayStr(now) - (CHOOSE d \in failing : \A e \in failing : e <= d)

C23_AtMostLimit ==
  result.op = "calculateStreak" => result.value.streak <= StreakLimit

\* ---------------------------------------------------------------- C24

\* The (start, end) pairs of a list of sessions or of handed-over pairs.
C24_Pairs(list) ==
  { <<list[i].start, list[i].end>> : i \in 1..Len(list) }

\* The sessions calculateWorkTimeForDate returns for the date, none when it
\* returns null.
C24_Sessions(date) ==
  LET value == calculateWorkTimeForDate(activity_log, date, productiveApps,
                                        productiveWebsites, now)
  IN IF getActivityForDate(activity_log, date) = <<>> THEN {}
     ELSE C24_Pairs(value.sessions)

\* C24: for every event stream and queried date (today or past), the set of
\* (start, end) intervals that get-hourly-stats passes to addTimeToHours
\* equals the set of sessions returned by calculateWorkTimeForDate for the
\* same date, including a final open session.
C24_HourlyEqualsSessions ==
  ( /\ result.op = "get-hourly-stats"
    /\ result.at = now
    /\ initialized )
    => C24_Pairs(result.value.passed) = C24_Sessions(result.date)

\* ---------------------------------------------------------------- migration

\* The longest legacy log a run starts with.
MaxLegacyLines == 2

\* A line of activity_log.txt that does not start with a timestamp has
\* timestamp = NullDate.
TextLine(timestamp, text) == [ timestamp |-> timestamp, text |-> text ]

\* The tokens that start with a comma: [^,]+ stops in front of them.
CommaTokens == { ", Window: ", "," }

\* String.prototype.trim on a token sequence: blank tokens at both ends go.
RECURSIVE Trim(_)
Trim(s) ==
  IF s = <<>> THEN <<>>
  ELSE IF s[1] = " " THEN Trim(Tail(s))
  ELSE IF s[Len(s)] = " " THEN Trim(SubSeq(s, 1, Len(s) - 1))
  ELSE s

\* line.match(/App: ([^,]+)/): the captured group, Null without a match.
AppMatch(text) ==
  LET starts == { i \in 1..(Len(text) - 1) :
                    text[i] = "App: " /\ text[i + 1] \notin CommaTokens }
  IN IF starts = {} THEN Null
     ELSE LET i     == CHOOSE k \in starts : \A m \in starts : k <= m
              stops == { j \in (i + 1)..Len(text) : text[j] \in CommaTokens }
                         \cup { Len(text) + 1 }
              stop  == CHOOSE k \in stops : \A m \in stops : k <= m
          IN [ group |-> SubSeq(text, i + 1, stop - 1) ]

\* line.match(/Window: (.+)$/): the captured group, Null without a match.
WindowMatch(text) ==
  LET starts == { i \in 1..Len(text) : text[i] = ", Window: " }
  IN IF starts = {} THEN Null
     ELSE LET i == CHOOSE k \in starts : \A m \in starts : k <= m
          IN IF i = Len(text) THEN Null
             ELSE [ group |-> SubSeq(text, i + 1, Len(text)) ]

\* parseLogLine(line): the entry of a line, Null for a line it cannot parse.
\* A null appName or windowTitle is NullStr.
parseLogLine(line) ==
  IF line.timestamp = NullDate THEN Null
  ELSE IF Includes(line.text, <<"AFK START">>)
  THEN [ timestamp |-> line.timestamp, appName |-> NullStr,
         windowTitle |-> NullStr, isAfk |-> TRUE, afkType |-> "start" ]
  ELSE IF Includes(line.text, <<"AFK END">>)
  THEN [ timestamp |-> line.timestamp, appName |-> NullStr,
         windowTitle |-> NullStr, isAfk |-> TRUE, afkType |-> "end" ]
  ELSE IF AppMatch(line.text) # Null
  THEN [ timestamp   |-> line.timestamp,
         appName     |-> Trim(AppMatch(line.text).group),
         windowTitle |-> IF WindowMatch(line.text) # Null
                         THEN Trim(WindowMatch(line.text).group)
                         ELSE NullStr,
         isAfk       |-> FALSE,
         afkType     |-> "null" ]
  ELSE Null

\* content.split('\n').filter(line => line.trim())
NonBlankLines(content) ==
  SelectSeq(content, LAMBDA line :
              line.timestamp # NullDate \/ Trim(line.text) # <<>>)

\* Mutant of ParseEntries: the loop ends at the first line that cannot be
\* parsed.
RECURSIVE ParseEntries_AbortOnBadLine(_)
ParseEntries_AbortOnBadLine(lines) ==
  IF lines = <<>> THEN <<>>
  ELSE IF parseLogLine(lines[1]) = Null THEN <<>>
  ELSE <<parseLogLine(lines[1])>> \o ParseEntries_AbortOnBadLine(Tail(lines))

\* The loop of migrateFromTextLog over the lines: the entries it collects.
RECURSIVE ParseEntries(_)
ParseEntries(lines) ==
  IF lines = <<>> THEN <<>>
  ELSE IF parseLogLine(lines[1]) = Null THEN ParseEntries(Tail(lines))
  ELSE <<parseLogLine(lines[1])>> \o ParseEntries(Tail(lines))

\* insertMany(entries): one INSERT per entry, the project column left NULL.
RECURSIVE insertMany(_, _)
insertMany(log, parsed) ==
  IF parsed = <<>> THEN log
  ELSE insertMany(Append(log,
                    ActivityRow(parsed[1].timestamp, parsed[1].appName,
                                parsed[1].windowTitle, parsed[1].isAfk,
                                parsed[1].afkType, "null")),
                  Tail(parsed))

\* isMigrated(): there is a row id = 1 in migration_status.
isMigrated == init /\ migration_status.migrated

\* migrateFromTextLog(logFilePath): the tables it leaves and what it returns.
\* readable is FALSE when reading the file throws.
migrateFromTextLog(readable) ==
  LET parsed == ParseEntries(NonBlankLines(log_file))
      Same(value) == [ activity_log     |-> activity_log,
                       migration_status |-> migration_status,
                       value            |-> value ]
  IN IF ~init THEN Same(FALSE)
     ELSE IF isMigrated THEN Same(TRUE)
     ELSE IF ~log_exists THEN Same(TRUE)
     ELSE IF ~readable THEN Same(FALSE)
     ELSE [ activity_log     |-> insertMany(activity_log, parsed),
            migration_status |-> [ migrated         |-> TRUE,
                                   entries_migrated |-> Len(parsed) ],
            value            |-> TRUE ]

MigrateFromTextLog(readable) ==
  LET out == migrateFromTextLog(readable)
  IN /\ initialized' = init
     /\ activity_log' = out.activity_log
     /\ migration_status' = out.migration_status
     /\ result' = [ op |-> "migrateFromTextLog", value |-> out.value ]
     /\ UNCHANGED <<log_exists, sqlite, daily_summary, log_file, entries, now>>
     /\ UNCHANGED <<trackerVars, configVars, cacheVars>>

IsMigrated ==
  /\ initialized' = init
  /\ result' = [ op |-> "isMigrated", value |-> isMigrated ]
  /\ UNCHANGED <<migrationVars, sqlite, activity_log, daily_summary, log_file, entries, now>>
  /\ UNCHANGED <<trackerVars, configVars, cacheVars>>

\* The start of the application: the database is initialised and the legacy
\* log migrated when SQLite is available.
Startup(readable) ==
  IF sqlite
  THEN LET out == migrateFromTextLog(readable)
       IN /\ initialized' = init
          /\ activity_log' = out.activity_log
          /\ migration_status' = out.migration_status
          /\ result' = [ op |-> "startup", value |-> out.value ]
          /\ UNCHANGED <<log_exists, sqlite, daily_summary, log_file, entries, now>>
          /\ UNCHANGED <<trackerVars, configVars, cacheVars>>
  ELSE /\ result' = [ op |-> "startup", value |-> FALSE ]
       /\ UNCHANGED <<migrationVars, sqlite, initialized, activity_log, daily_summary, log_file, entries, now>>
       /\ UNCHANGED <<trackerVars, configVars, cacheVars>>

\* Lines of a legacy activity_log.txt: samples and markers as the sampler
\* wrote them, a blank line, text without a timestamp, a timestamped line
\* that is neither a marker nor a sample, and a sample without an app name.
LegacyLines ==
  { TextLine(0, <<"App: ", "VSCode", ", Window: ", "test.js">>),
    TextLine(1, <<"--- ", "AFK START", " ---">>),
    TextLine(1, <<"--- ", "AFK END", " ---">>),
    TextLine(NullDate, <<>>),
    TextLine(NullDate, <<"App: ", "VSCode", ", Window: ", "test.js">>),
    TextLine(0, <<"Tracking ", "started">>),
    TextLine(0, <<"App: ", ", Window: ", "test.js">>) }

LegacyLogs ==
  UNION { [ 1..n -> LegacyLines ] : n \in 0..MaxLegacyLines }

\* An installation before its start: a legacy log of any content, or none.
InitMigrationRun ==
  /\ sqlite \in BOOLEAN
  /\ initialized = FALSE
  /\ activity_log = <<>>
  /\ daily_summary = {}
  /\ log_file \in LegacyLogs
  /\ log_exists \in (IF log_file = <<>> THEN BOOLEAN ELSE {TRUE})
  /\ migration_status = NotMigrated
  /\ entries = <<>>
  /\ now = StartTime
  /\ result = NoResult
  /\ InitTracker
  /\ InitConfig
  /\ InitCache

NextMigration ==
  \/ \E readable \in BOOLEAN : Startup(readable)
  \/ \E readable \in BOOLEAN : MigrateFromTextLog(readable)
  \/ IsMigrated
  \/ /\ Len(log_file) < MaxLegacyLines
     /\ \E e \in SampleInputs : SamplerWrite(e)
     /\ UNCHANGED entries
  \/ (now < SamplerHorizon /\ Tick)

SpecMigration == InitMigrationRun /\ [][NextMigration]_vars

\* ---------------------------------------------------------------- C25

\* The number of lines of the legacy log that parseLogLine can parse.
C25_Parsable ==
  Cardinality({ i \in 1..Len(log_file) :
                  /\ log_file[i].timestamp # NullDate
                  /\ \/ Includes(log_file[i].text, <<"AFK START">>)
                     \/ Includes(log_file[i].text, <<"AFK END">>)
                     \/ AppMatch(log_file[i].text) # Null })

\* C25: a migration that runs inserts exactly one activity_log row per line
\* parseLogLine can parse (timestamped AFK START, AFK END or 'App:' lines),
\* skips every other line without aborting, and records entries_migrated
\* equal to the number of rows inserted.
C25_OneRowPerParsableLine ==
  [][ (~migration_status.migrated /\ migration_status'.migrated)
        => /\ Len(activity_log') = Len(activity_log) + C25_Parsable
           /\ SubSeq(activity_log', 1, Len(activity_log)) = activity_log
           /\ migration_status'.entries_migrated
                = Len(activity_log') - Len(activity_log)
           /\ \A k \in (Len(activity_log) + 1)..Len(activity_log') :
                \E i \in 1..Len(log_file) :
                  /\ parseLogLine(log_file[i]) # Null
                  /\ activity_log'[k].timestamp = log_file[i].timestamp ]_vars

\* C25 witness: a log whose first line cannot be parsed and whose second
\* line can has been migrated: one row, entries_migrated = 1.
C25_Witness ==
  /\ result.op = "migrateFromTextLog"
  /\ migration_status.migrated
  /\ Len(log_file) = 2
  /\ parseLogLine(log_file[1]) = Null
  /\ parseLogLine(log_file[2]) # Null
  /\ migration_status.entries_migrated = 1
  /\ Len(activity_log) = 1

\* ---------------------------------------------------------------- C26

\* The row is the event of the parsed legacy line.
C26_SameEvent(row, entry) ==
  /\ row.timestamp = entry.timestamp
  /\ row.app_name = entry.appName
  /\ row.window_title = entry.windowTitle
  /\ row.is_afk = entry.isAfk
  /\ row.afk_type = entry.afkType

\* C26: migration is one-time: once migrateFromTextLog has completed for an
\* existing log file, isMigrated() is true and every later call inserts no
\* rows, so no legacy line is ever present twice in activity_log: the rows
\* that hold the event of a line are never more than the lines that hold it.
C26_NoLineTwice ==
  \A i \in 1..Len(log_file) :
    parseLogLine(log_file[i]) # Null
      => Cardinality({ k \in 1..Len(activity_log) :
                         C26_SameEvent(activity_log[k],
                                       parseLogLine(log_file[i])) })
           <= Cardinality({ j \in 1..Len(log_file) :
                              parseLogLine(log_file[j])
                                = parseLogLine(log_file[i]) })

\* ---------------------------------------------------------------- C27

\* C27: when the event store is missing or cannot be initialised,
\* analyzeWorkTime does not throw or reject: it returns the zero-filled
\* result (totalSeconds 0, sessionsCount 0, sessions []) for the requested
\* date.
C27_ZeroFilledWithoutStore ==
  ( /\ result.op \in {"analyzeWorkTime", "analyzeWorkTimeWithFallback"}
    /\ ~sqlite )
    => result.value = createEmptyResult(result.date)

\* ---------------------------------------------------------------- C28

\* projectKeywords of DEFAULT_CONFIG as shipped: no project.
ShippedProjectKeywords == <<>>

\* C28: Config.reset() restores every configuration field to its shipped
\* default after any preceding sequence of edits, edits made on a
\* configuration that was itself created from the defaults included: after
\* reset projectKeywords equals its original default.
C28_ResetRestoresShipped ==
  result.op = "reset-config" => projectKeywords = ShippedProjectKeywords

\* ---------------------------------------------------------------- C29

\* The places in activity_log of the rows of the reconstructed date.
C29_DayPositions ==
  { i \in 1..Len(activity_log) :
      DateOf(activity_log[i].timestamp) = result.date }

\* The place of row i of activity_log in the append order stably sorted by
\* timestamp: the rows of the date with a smaller timestamp, or with the
\* same timestamp and appended no later.
C29_Rank(i) ==
  Cardinality({ j \in C29_DayPositions :
                  \/ activity_log[j].timestamp < activity_log[i].timestamp
                  \/ /\ activity_log[j].timestamp = activity_log[i].timestamp
                     /\ j <= i })

MaxPassRows == 4

\* The rows of a stored stream: a productive sample, another sample, the two
\* markers.
PassRows == { VSCodeSample, SlackSample, AfkStartMarker, AfkEndMarker }

\* A stream of n rows, one per tick from the start of day 0.
PassStreams ==
  UNION { { [ k \in 1..n |-> At(k - 1, f[k]) ] : f \in [ 1..n -> PassRows ] } :
          n \in 0..MaxPassRows }

\* A store that holds any such stream, the database initialised.
InitPass ==
  /\ sqlite = TRUE
  /\ initialized = TRUE
  /\ activity_log \in PassStreams
  /\ daily_summary = {}
  /\ log_file = <<>>
  /\ entries = <<>>
  /\ now = StartTime
  /\ result = NoResult
  /\ InitTracker
  /\ InitConfig
  /\ InitCache
  /\ InitMigration

NextPass ==
  \/ \E date \in Dates : CalculateWorkTimeForDate(date)
  \/ Tick

SpecPass == InitPass /\ [][NextPass]_vars

\* ---------------------------------------------------------------- C30

\* The locals of the reconstruction after the first k rows it walked.
C30_Locals(k) == Pass(WalkedRows, k, productiveApps, productiveWebsites)

C30_IsMarker(k, afkType) ==
  WalkedRows[k].is_afk /\ WalkedRows[k].afk_type = afkType

\* At every point of the pass no session is open while the afk flag is true.
C30_NoSessionWhileAfk ==
  \A k \in 0..Len(WalkedRows) :
    C30_Locals(k).isAfk => C30_Locals(k).sessionStart = NullDate

\* A second consecutive AfkStart records no session.
C30_SecondStartRecordsNothing ==
  \A k \in 2..Len(WalkedRows) :
    (C30_IsMarker(k - 1, "start") /\ C30_IsMarker(k, "start"))
      => /\ C30_Locals(k).sessions = C30_Locals(k - 1).sessions
         /\ C30_Locals(k).totalWorkSeconds = C30_Locals(k - 1).totalWorkSeconds

\* C30 as claimed: at every point of the reconstruction pass, whenever the
\* afk flag is true no session is open; consequently an AfkEnd never leaves a
\* session open and a second consecutive AfkStart records no session.
C30_AfkEndNeverLeavesOpen ==
  Reconstructed
    => /\ C30_NoSessionWhileAfk
       /\ \A k \in 1..Len(WalkedRows) :
            C30_IsMarker(k, "end") => C30_Locals(k).sessionStart = NullDate
       /\ C30_SecondStartRecordsNothing

\* C30: at every point of the reconstruction pass, whenever the afk flag is
\* true no session is open; consequently an AfkEnd read while the flag is
\* true never leaves a session open and a second consecutive AfkStart records
\* no session.  An AfkEnd read while the flag is false changes nothing but
\* lastTimestamp, so a session that is open stays open.
C30_AfkEndAfterStartLeavesNoneOpen ==
  Reconstructed
    => /\ C30_NoSessionWhileAfk
       /\ \A k \in 1..Len(WalkedRows) :
            (C30_IsMarker(k, "end") /\ C30_Locals(k - 1).isAfk)
              => C30_Locals(k).sessionStart = NullDate
       /\ \A k \in 1..Len(WalkedRows) :
            (C30_IsMarker(k, "end") /\ ~C30_Locals(k - 1).isAfk)
              => C30_Locals(k).sessionStart = C30_Locals(k - 1).sessionStart
       /\ C30_SecondStartRecordsNothing

\* C30 witness: a productive sample, two AfkStart markers and an AfkEnd were
\* walked: the first AfkStart recorded the session, the second nothing, and
\* no session is open after the AfkEnd.
C30_Witness ==
  /\ Reconstructed
  /\ Len(WalkedRows) = 4
  /\ ~WalkedRows[1].is_afk
  /\ C30_IsMarker(2, "start")
  /\ C30_IsMarker(3, "start")
  /\ C30_IsMarker(4, "end")
  /\ C30_Locals(1).sessionStart # NullDate
  /\ Len(C30_Locals(2).sessions) = 1
  /\ Len(C30_Locals(3).sessions) = 1
  /\ C30_Locals(3).isAfk
  /\ ~C30_Locals(4).isAfk
  /\ C30_Locals(4).sessionStart = NullDate

\* ---------------------------------------------------------------- C31

\* The rows of the reconstructed date have non-decreasing timestamps in the
\* order they were appended, and the evaluation was not earlier than the last
\* of them.
C31_Ordered ==
  /\ Reconstructed
  /\ \A i, j \in 1..Len(activity_log) :
       i < j => activity_log[i].timestamp <= activity_log[j].timestamp
  /\ WalkedRows # <<>>
  /\ WalkedRows[Len(WalkedRows)].timestamp <= result.at

\* The end of the span: the evaluation instant when the date is today, the
\* last event otherwise.
C31_SpanEnd ==
  IF result.date = TodayStr(result.at) THEN result.at
  ELSE WalkedRows[Len(WalkedRows)].timestamp

\* C31: for an event stream with non-decreasing timestamps, evaluated not
\* earlier than its last event, the sessions returned by
\* calculateWorkTimeForDate are in chronological order and pairwise
\* non-overlapping (each start >= the previous end), and totalWorkSeconds
\* never exceeds the span from the first event to the last event, or to now
\* when the date is today.
C31_SessionsOrderedWithinSpan ==
  C31_Ordered
    => /\ \A k \in 1..Len(result.value.sessions) :
            result.value.sessions[k].start <= result.value.sessions[k].end
       /\ \A k \in 2..Len(result.value.sessions) :
            result.value.sessions[k].start >= result.value.sessions[k - 1].end
       /\ result.value.totalWorkSeconds
            <= Duration(WalkedRows[1].timestamp, C31_SpanEnd)

\* C31 witness: a past date was reconstructed into two sessions.
C31_Witness ==
  /\ C31_Ordered
  /\ result.date < TodayStr(result.at)
  /\ Len(result.value.sessions) = 2
  /\ result.value.sessions[2].start > result.value.sessions[1].end

\* ---------------------------------------------------------------- C32

\* The database pass ran over a date whose events the sampler wrote to both
\* stores.
C32_SameEvents ==
  /\ Reconstructed
  /\ sqlite
  /\ Len(log_file) = Len(activity_log)
  /\ \A k \in 1..Len(log_file) :
       /\ log_file[k].timestamp = activity_log[k].timestamp
       /\ log_file[k] = LogLine(activity_log[k].timestamp, activity_log[k])

\* What the text-log pass reports for the same date at the same instant.
C32_TextResult == analyzeWorkTimeFromTextLog(log_file, result.date, result.at)

\* C32: the two reconstruction paths agree: for the same day's event sequence
\* and the same allow-lists the text-log pass and the database pass report
\* the same session intervals, the same sessionsCount and the same
\* totalWorkSeconds, in particular for a productive sample that follows an
\* AfkEnd.
C32_PathsAgree ==
  C32_SameEvents
    => /\ C32_TextResult.sessions = MapSessions(result.value.sessions)
       /\ C32_TextResult.sessionsCount = result.value.sessionsCount
       /\ C32_TextResult.totalWorkTime.totalSeconds
            = result.value.totalWorkSeconds

\* ---------------------------------------------------------------- failing appends

\* detector.getIdleTime() resolves for call i with a sample that changes the
\* AFK state, and the INSERT of db.logActivity throws: logActivity catches the
\* error and returns null, the sampler does not look at what it returned.
IdleResolvesAppendFails(i, idleTimeSeconds) ==
  /\ i \in 1..Len(inflight)
  /\ inflight[i].pc = "getIdleTime"
  /\ AboveThreshold(idleTimeSeconds) # isAFK
  /\ isAFK' = AboveThreshold(idleTimeSeconds)
  /\ inflight' = IF AboveThreshold(idleTimeSeconds)
                 THEN RemoveAt(inflight, i)
                 ELSE [ inflight EXCEPT ![i] =
                          Awaiting("getActiveApp", NullStr, <<>>) ]
  /\ initialized' = init
  /\ result' = Returned("logActivity", DateOf(now), Null)
  /\ UNCHANGED <<migrationVars, sqlite, activity_log, daily_summary, log_file,
                 entries, now, trackingInterval, configVars, cacheVars>>

\* The last detector call of call i settles and the INSERT of the sample
\* throws inside db.logActivity: the project was detected, no row is stored.
LogSampleFails(i) ==
  /\ i \in 1..Len(inflight)
  /\ inflight[i].pc \in {"getActiveApp", "getWindowTitle"}
  /\ inflight' = RemoveAt(inflight, i)
  /\ GetKeywords
  /\ initialized' = init
  /\ result' = Returned("logActivity", DateOf(now), Null)
  /\ UNCHANGED <<migrationVars, sqlite, activity_log, daily_summary, log_file,
                 entries, now, isAFK, trackingInterval, configVars>>

\* The sampler's ticks, each append succeeding or failing.
NextFailingAppends ==
  \/ StartTracking
  \/ TimerFires
  \/ \E i \in 1..MaxInFlight, idleTimeSeconds \in IdleTimes :
       IdleResolves(i, idleTimeSeconds)
  \/ \E i \in 1..MaxInFlight, idleTimeSeconds \in IdleTimes :
       IdleResolvesAppendFails(i, idleTimeSeconds)
  \/ \E i \in 1..MaxInFlight, appName \in ActiveApps : AppResolves(i, appName)
  \/ \E i \in 1..MaxInFlight, windowTitle \in WindowTitles :
       TitleResolves(i, windowTitle)
  \/ \E i \in 1..MaxInFlight : LogSampleFails(i)
  \/ (now < SamplerHorizon /\ Tick)

SpecFailingAppends == InitSampler /\ [][NextFailingAppends]_vars

\* ---------------------------------------------------------------- C33

\* C33: sampler memory and event log stay consistent: after any sequence of
\* logActivity ticks in one process, where an individual store append may
\* fail silently, the in-memory isAFK flag is true exactly when the last AFK
\* marker present in the event log is an AfkStart, and the AfkStart/AfkEnd
\* markers in the log strictly alternate.
C33_MemoryMatchesLog ==
  /\ isAFK = AfkOpenAfter(activity_log, Len(activity_log))
  /\ \A k \in 2..Len(AfkMarkers(activity_log)) :
       AfkMarkers(activity_log)[k].afk_type
         # AfkMarkers(activity_log)[k - 1].afk_type

\* ---------------------------------------------------------------- restarts

\* The process ends and the application is started again: the module state
\* of activityTracker.js and of the database object is that of a fresh load,
\* the calls in flight are gone, the tables are what they were.
Restart ==
  /\ isAFK' = FALSE
  /\ trackingInterval' = FALSE
  /\ inflight' = <<>>
  /\ initialized' = FALSE
  /\ result' = [ op |-> "restart" ]
  /\ UNCHANGED <<migrationVars, sqlite, activity_log, daily_summary, log_file,
                 entries, now, configVars, cacheVars>>

\* Ticks that do not overlap (every detector call settles before the next
\* tick starts), and restarts of the process.
NextRestarts ==
  \/ (inflight = <<>> /\ StartTracking)
  \/ (inflight = <<>> /\ TimerFires)
  \/ \E i \in 1..MaxInFlight, idleTimeSeconds \in IdleTimes :
       IdleResolves(i, idleTimeSeconds)
  \/ \E i \in 1..MaxInFlight, appName \in ActiveApps : AppResolves(i, appName)
  \/ \E i \in 1..MaxInFlight, windowTitle \in WindowTitles :
       TitleResolves(i, windowTitle)
  \/ Restart
  \/ (now < SamplerHorizon /\ Tick)

SpecRestarts == InitSampler /\ [][NextRestarts]_vars

\* ---------------------------------------------------------------- C34

\* The rows of a date as the reconstructor walks them.
C34_Rows(date) == getActivityForDate(activity_log, date)

\* C34: no sampled work is silently discarded by the reconstructor: for every
\* log produced by the sampler, a process restart on a day whose last logged
\* AFK marker is an AfkStart included, the reconstructor's afk flag is false
\* at every Activity event of that day.
C34_AfkFalseAtEveryActivity ==
  \A date \in Dates :
    \A k \in 1..Len(C34_Rows(date)) :
      ~C34_Rows(date)[k].is_afk
        => ~Pass(C34_Rows(date), k - 1, productiveApps, productiveWebsites).isAfk

\* ---------------------------------------------------------------- C35

\* The timer is cleared before and after the step: the step lies between a
\* stopTracking that returned true and the next startTracking.
C35_Stopped == ~trackingInterval /\ ~trackingInterval'

\* C35 as claimed: after stopTracking returns true no further event is
\* appended to the event store until the next startTracking call, even if a
\* logActivity tick was awaiting an external call at the moment of stopping.
C35_NoAppendAfterStop ==
  [][ C35_Stopped => activity_log' = activity_log ]_vars

\* C35: after stopTracking returns true no new tick is started until the next
\* startTracking call; a logActivity tick that was awaiting an external call
\* at the moment of stopping is not cancelled: it runs on when the call
\* settles and appends its events, so every event appended while stopped
\* comes from a tick that was already in flight.
C35_NoNewTickAfterStop ==
  [][ C35_Stopped
        => /\ Len(inflight') <= Len(inflight)
           /\ activity_log' # activity_log
                => /\ inflight # <<>>
                   /\ Len(activity_log') = Len(activity_log) + 1 ]_vars

\* C35 witness: the timer is cleared and the last call that returned is an
\* append of a tick that went on after stopTracking.
C35_Witness ==
  /\ ~trackingInterval
  /\ result.op = "logActivity"
  /\ activity_log # <<>>
  /\ activity_log[Len(activity_log)].timestamp = result.at

\* ---------------------------------------------------------------- C36

\* The keyword map has the project.
C36_Has(map, projectName) ==
  \E i \in 1..Len(map) : map[i].name = projectName

\* C36: removing a project in settings and saving removes it from
\* classification: after a save-config whose submitted projectKeywords map
\* omits a project P that was configured before, getProjectKeywords() no
\* longer contains P.
C36_SaveRemovesOmitted ==
  [][ \A updates \in { <<>> } \cup { <<entry>> : entry \in ProjectEntries },
         saved \in BOOLEAN :
        SaveConfig(updates, saved)
          => \A projectName \in ProjectNames :
               ( /\ C36_Has(getProjectKeywords, projectName)
                 /\ ~C36_Has(updates, projectName) )
                 => ~C36_Has(getProjectKeywords', projectName) ]_vars

\* ---------------------------------------------------------------- hourly histogram, in milliseconds

\* The most sessions of a stored millisecond stream.
MaxShortSessions == 3

\* Timestamps within the first hour of a day, in milliseconds: 00:00:00,
\* 00:20:30, 00:20:31, 00:41:01, 00:41:02, 00:59:32.
MsOffsets == { 0, 1230000, 1231000, 2461000, 2462000, 3572000 }

\* A stream of n sessions: a productive sample opens each, another sample
\* closes it, the timestamps never decrease.
MsStreams ==
  UNION { { [ k \in 1..(2 * n) |->
                At(f[k], IF k % 2 = 1 THEN VSCodeSample ELSE SlackSample) ] :
            f \in { g \in [ 1..(2 * n) -> MsOffsets ] :
                      \A k \in 1..(2 * n - 1) : g[k] <= g[k + 1] } } :
          n \in 1..MaxShortSessions }

\* addTimeToHours(hourlyMinutes, start, end) on millisecond clock values, the
\* hours read in a zone without offset: endOfHour is the hour's last
\* millisecond, Math.round(minutes) goes to the hour's bucket, the next
\* segment starts one millisecond after endOfHour.
RECURSIVE addTimeToHoursMs(_, _, _)
addTimeToHoursMs(hourlyMinutes, current, end) ==
  IF ~(current < end) THEN hourlyMinutes
  ELSE LET hour       == (current \div 3600000) % 24
           endOfHour  == (current \div 3600000) * 3600000 + 3599999
           segmentEnd == IF endOfHour < end THEN endOfHour ELSE end
           minutes    == (segmentEnd - current + 30000) \div 60000
       IN addTimeToHoursMs([ hourlyMinutes EXCEPT ![hour] = @ + minutes ],
                           endOfHour + 1, end)

RECURSIVE HourlyMinutesMs(_, _)
HourlyMinutesMs(passed, k) ==
  IF k = 0 THEN [ hour \in 0..23 |-> 0 ]
  ELSE addTimeToHoursMs(HourlyMinutesMs(passed, k - 1),
                        passed[k].start, passed[k].end)

\* A store that holds any such stream as the rows of one past date.
InitHourlyMs ==
  /\ sqlite = TRUE
  /\ initialized = TRUE
  /\ activity_log \in MsStreams
  /\ daily_summary = {}
  /\ log_file = <<>>
  /\ entries = <<>>
  /\ now = StartTime
  /\ result = NoResult
  /\ InitTracker
  /\ InitConfig
  /\ InitCache
  /\ InitMigration

\* ipcMain.handle('get-hourly-stats') for the past date whose rows the store
\* holds: the loop over the rows, no ongoing session added for a past date,
\* the 24 buckets returned.
GetHourlyStatsMs ==
  LET passed == HourlyPass(activity_log, Len(activity_log), productiveApps,
                           productiveWebsites).passed
  IN /\ result' = [ op    |-> "get-hourly-stats-ms",
                    value |-> [ hourlyMinutes |->
                                  HourlyMinutesMs(passed, Len(passed)),
                                passed |-> passed ] ]
     /\ UNCHANGED <<migrationVars, sqlite, initialized, activity_log, daily_summary,
                  log_file, entries, now>>
     /\ UNCHANGED <<trackerVars, configVars, cacheVars>>

NextHourlyMs == GetHourlyStatsMs

SpecHourlyMs == InitHourlyMs /\ [][NextHourlyMs]_vars

\* ---------------------------------------------------------------- C37

\* C37 as claimed: every one of the 24 values returned by get-hourly-stats is
\* between 0 and 60 minutes, although each session segment is rounded to
\* whole minutes on its own before it is added to its bucket.  Violated:
\* sessions 00:00:00-00:20:30, 00:20:31-00:41:01 and 00:41:02-00:59:32 round
\* to 21, 21 and 19 minutes and bucket 0 holds 61.
C37_BucketsWithinHour ==
  result.op = "get-hourly-stats-ms"
    => \A hour \in 0..23 :
         /\ 0 <= result.value.hourlyMinutes[hour]
         /\ result.value.hourlyMinutes[hour] <= 60

\* ---------------------------------------------------------------- C38

\* C38 as claimed: getDailyGoalProgress reports percentage = 100 only when
\* isComplete is true and remainingSeconds is 0.  Violated: with the default
\* goal of 28800 seconds a total of 28656 seconds is rounded from 99.5 to
\* 100 percent while 144 seconds remain and isComplete is false.
C38_FullPercentMeansComplete ==
  result.op = "getDailyGoalProgress"
    => ( result.value.percentage = 100
           => /\ result.value.isComplete
              /\ result.value.remainingSeconds = 0 )

\* ---------------------------------------------------------------- C39

\* The row the pass walked at position k was skipped because afk was true.
C39_Skipped(k) == ~WalkedRows[k].is_afk /\ C30_Locals(k - 1).isAfk

\* C39 as claimed: lastTimestamp is advanced to the timestamp of every
\* processed event, activity events skipped because afk is true included, so
\* after the pass it equals the timestamp of the last event of the date.
\* Violated: the loop continues before the assignment when afk is true.
C39_LastTimestampIsLastEvent ==
  (Reconstructed /\ WalkedRows # <<>>)
    => WalkedPass.lastTimestamp = WalkedRows[Len(WalkedRows)].timestamp

\* C39 amended: lastTimestamp is advanced to the timestamp of every AFK
\* marker and of every activity event walked while afk is false; an activity
\* event skipped because afk is true leaves it unchanged; when the pass ends
\* with a session open, lastTimestamp is the timestamp of the last event of
\* the date.
C39_LastTimestampSkipsAfkRows ==
  Reconstructed
    => /\ \A k \in 1..Len(WalkedRows) :
            C30_Locals(k).lastTimestamp =
              IF C39_Skipped(k) THEN C30_Locals(k - 1).lastTimestamp
              ELSE WalkedRows[k].timestamp
       /\ (WalkedRows # <<>> /\ WalkedPass.sessionStart # NullDate)
            => WalkedPass.lastTimestamp = WalkedRows[Len(WalkedRows)].timestamp

\* C39 witness: a pass whose last row was an activity skipped while afk ended
\* with lastTimestamp at the earlier marker.
C39_Witness ==
  /\ Reconstructed
  /\ Len(WalkedRows) >= 2
  /\ C39_Skipped(Len(WalkedRows))
  /\ WalkedPass.lastTimestamp = WalkedRows[Len(WalkedRows) - 1].timestamp
  /\ WalkedPass.lastTimestamp < WalkedRows[Len(WalkedRows)].timestamp


====
